---- MODULE Spec2Model ----
(***************************************************************************)
(* Model of the musicbox player (src/music_player.py): the MusicPlayer     *)
(* object, the audio processes it launches, and the commands that reach it *)
(* from the keyboard loop, the GPIO callbacks, the encoder polling thread  *)
(* and the auto-advance monitor.                                           *)
(***************************************************************************)
EXTENDS Integers, Sequences, FiniteSets, TLC

\* ------------------------------------------------------------------ bounds
\* Audio processes launched in one behaviour (Popen calls that succeed).
MaxLaunch == 3
\* Longest playlist find_music_files returns.
MaxTracks == 3

\* The same two bounds for the interleaved specification.
MaxConcLaunch == 2
MaxConcTracks == 2

\* ------------------------------------------------------- program constants
DefaultVolume == 80
KeyboardStep == 5
EncoderStep == 2
MinVolume == 0
MaxVolume == 100

None == 0
Tracks == <<"A.mp3", "B.mp3", "C.mp3", "D.mp3", "E.mp3">>

\* Arguments of direct set_volume calls.
VolumeInputs == {-20, -1, 0, 55, 100, 101, 130}

VARIABLES
  playlist,         \* self.playlist
  current_index,    \* self.current_index
  state,            \* self.state
  volume,           \* self.volume
  current_process,  \* self.current_process: a pid of procs, or None
  procs,            \* the audio processes launched so far, by pid
  mixer,            \* the percentage of the last amixer call, -1 before any
  play_all_i,       \* play_all's loop position, -1 outside play_all
  last,             \* the last step taken, its inputs and the state it began in
  nav,              \* a run of play_next/play_previous: start index and counts
  th,               \* the threads running playback commands: position and locals
  raised,           \* an exception has escaped a player method
  vt,               \* the threads running volume commands: position and locals
  enc,              \* encoder lines A and B, self.last_a_state, falls of A counted
  ops,              \* volume commands begun so far
  vreq,             \* the volume they began at, the sum of their steps, any reset
  now,              \* time.time(), in seconds
  display,          \* the MusicDisplay object and what its last render drew
  gpio,             \* the button lines, their edge detection, the callbacks run
  dec,              \* a clock in ms, the EncoderTest decoder, steps of both decoders
  shut,             \* stop() and cleanup(): position, signals sent, teardown order
  panel             \* the display's theme colours, its pixel buffer, what was drawn

vars == <<playlist, current_index, state, volume, current_process, procs,
          mixer, play_all_i, last, nav, th, raised, vt, enc, ops, vreq,
          now, display, gpio, dec, shut, panel>>

\* What the one-at-a-time commands leave alone.
aux == <<nav, th, raised, vt, enc, ops, vreq, now, display, gpio, dec, shut, panel>>

\* The player's fields and the processes, as one value.
Player ==
  [state |-> state, current_index |-> current_index, volume |-> volume,
   current_process |-> current_process, procs |-> procs, mixer |-> mixer]

\* ---------------------------------------------------------------- processes
Alive(ps, p) == p \in 1..Len(ps) /\ ps[p].status \in {"running", "suspended"}

LivePids(ps) == {p \in 1..Len(ps) : Alive(ps, p)}

\* A finished process: what it played no longer matters.
Exited == [track |-> "", status |-> "exited"]

\* Popen.send_signal: a finished process is left alone, nothing is raised.
send_signal(ps, p, sig) ==
  IF ~Alive(ps, p) THEN ps
  ELSE IF sig = "SIGSTOP" THEN [ps EXCEPT ![p].status = "suspended"]
  ELSE IF sig = "SIGCONT" THEN [ps EXCEPT ![p].status = "running"]
  ELSE ps

\* terminate(), wait(timeout=2) and, on timeout, kill(): the process is gone.
terminate_wait_kill(ps, p) ==
  IF p \in 1..Len(ps) THEN [ps EXCEPT ![p] = Exited] ELSE ps

\* ------------------------------------------------------------------ methods
Max(a, b) == IF a >= b THEN a ELSE b

Min(a, b) == IF a <= b THEN a ELSE b

clamp_no_floor(v) == Min(MaxVolume, v)

\* max(0, min(100, volume))
clamp(v) == Max(MinVolume, Min(MaxVolume, v))

\* set_volume: store the clamped value, then call amixer with the stored
\* value; a failing amixer call (mixer_ok FALSE) is caught and printed.
set_volume(s, v, mixer_ok) ==
  [s EXCEPT !.volume = clamp(v),
            !.mixer = clamp(v)]

volume_up(s, step, mixer_ok) == set_volume(s, s.volume + step, mixer_ok)

volume_down(s, step, mixer_ok) == set_volume(s, s.volume - step, mixer_ok)

stop_keeps_state(s) ==
  IF s.current_process # None
  THEN [s EXCEPT !.procs = terminate_wait_kill(s.procs, s.current_process),
                 !.current_process = None]
  ELSE s

stop(s) ==
  IF s.current_process # None
  THEN [s EXCEPT !.procs = terminate_wait_kill(s.procs, s.current_process),
                 !.current_process = None,
                 !.state = "STOPPED"]
  ELSE s

play_file_no_stop(s, filepath, launch_ok) ==
  IF launch_ok
  THEN [s EXCEPT !.procs = Append(s.procs, [track |-> filepath, status |-> "running"]),
                 !.current_process = Len(s.procs) + 1,
                 !.state = "PLAYING"]
  ELSE [s EXCEPT !.state = "STOPPED"]

\* play_file: stop what is playing, then Popen mpg123 on filepath; launch_ok
\* is FALSE when Popen raises.
play_file(s, filepath, launch_ok) ==
  LET t == IF s.current_process # None THEN stop(s) ELSE s IN
  IF launch_ok
  THEN [t EXCEPT !.procs = Append(t.procs, [track |-> filepath, status |-> "running"]),
                 !.current_process = Len(t.procs) + 1,
                 !.state = "PLAYING"]
  ELSE [t EXCEPT !.state = "STOPPED"]

\* Python's % of a non-zero modulus: the result has the sign of the modulus.
PyMod(a, n) == a % n

play_next(s, pl, launch_ok) ==
  IF Len(pl) > 0
  THEN LET i == PyMod(s.current_index + 1, Len(pl)) IN
       play_file([s EXCEPT !.current_index = i], pl[i + 1], launch_ok)
  ELSE s

play_previous_no_wrap(s, pl, launch_ok) ==
  IF Len(pl) > 0
  THEN LET i == Max(s.current_index - 1, 0) IN
       play_file([s EXCEPT !.current_index = i], pl[i + 1], launch_ok)
  ELSE s

play_previous(s, pl, launch_ok) ==
  IF Len(pl) > 0
  THEN LET i == PyMod(s.current_index - 1, Len(pl)) IN
       play_file([s EXCEPT !.current_index = i], pl[i + 1], launch_ok)
  ELSE s

is_process_running_never(s) == FALSE

is_process_running(s) ==
  IF s.current_process # None THEN Alive(s.procs, s.current_process) ELSE FALSE

pause_if_alive(s) ==
  IF is_process_running(s) /\ s.state = "PLAYING"
  THEN [s EXCEPT !.procs = send_signal(s.procs, s.current_process, "SIGSTOP"),
                 !.state = "PAUSED"]
  ELSE s

pause(s) ==
  IF s.current_process # None /\ s.state = "PLAYING"
  THEN [s EXCEPT !.procs = send_signal(s.procs, s.current_process, "SIGSTOP"),
                 !.state = "PAUSED"]
  ELSE s

resume(s) ==
  IF s.current_process # None /\ s.state = "PAUSED"
  THEN [s EXCEPT !.procs = send_signal(s.procs, s.current_process, "SIGCONT"),
                 !.state = "PLAYING"]
  ELSE s

play_pause_callback_restarts(s, pl, launch_ok) ==
  IF s.state = "PLAYING" THEN pause(s)
  ELSE IF Len(pl) > 0 THEN play_file(s, pl[s.current_index + 1], launch_ok)
  ELSE s

play_pause_callback(s, pl, launch_ok) ==
  IF s.state = "PLAYING" THEN pause(s)
  ELSE IF s.state = "PAUSED" THEN resume(s)
  ELSE IF Len(pl) > 0 THEN play_file(s, pl[s.current_index + 1], launch_ok)
  ELSE s

encoder_button_callback_restores(s, mixer_ok) == set_volume(s, s.volume, mixer_ok)

encoder_button_callback(s, mixer_ok) == set_volume(s, DefaultVolume, mixer_ok)

play_by_number_off_by_one(s, pl, n, launch_ok) ==
  LET index == n - 1 IN
  IF 0 <= index /\ index <= Len(pl) /\ Len(pl) > 0
  THEN play_file([s EXCEPT !.current_index = index],
                 pl[Min(index, Len(pl) - 1) + 1], launch_ok)
  ELSE s

\* The digit command of interactive_mode: n is the number typed.
play_by_number(s, pl, n, launch_ok) ==
  LET index == n - 1 IN
  IF 0 <= index /\ index < Len(pl)
  THEN play_file([s EXCEPT !.current_index = index], pl[index + 1], launch_ok)
  ELSE s

monitor_poll_any_state(s, pl, launch_ok) ==
  IF ~is_process_running(s)
  THEN play_next(s, pl, launch_ok)
  ELSE s

\* One pass of the auto-advance check of interactive_mode and of main.
monitor_poll(s, pl, launch_ok) ==
  IF ~is_process_running(s) /\ s.state = "PLAYING"
  THEN play_next(s, pl, launch_ok)
  ELSE s

\* -------------------------------------------------------------------- state
PlaybackThreads == {"main", "gpio"}

VolumeThreads == {"main", "gpio", "encoder"}

Idle == [pc |-> "idle", path |-> "", h |-> None, ret |-> "idle", dir |-> 0]

VIdle == [pc |-> "idle", v |-> 0, a |-> 1, b |-> 1]

\* The four push-buttons of setup_gpio_controls, by their key in self.pins.
Buttons == {"play_pause", "next", "prev", "encoder_sw"}

Never == -1

\* After setup_gpio_controls: lines pulled up, no edge seen, no callback run.
NewGpio ==
  [t |-> 0,
   level |-> [b \in Buttons |-> 1],
   lastcall |-> [b \in Buttons |-> Never],
   calls |-> [b \in Buttons |-> 0],
   called_at |-> [b \in Buttons |-> Never],
   falls |-> 0]

\* The debounce of EncoderTest._encoder_callback, 0.010 s, in milliseconds.
debounce_time_ms == 10

\* The debounce_ms default of setup_gpio_controls.
debounce_ms == 200

\* EncoderTest.__init__ (position, last_encoder_time) beside a clock that, like
\* time.time(), reads far more than a debounce interval; line A last changed
\* and the player's decoder last stepped at changed_at and stepped_at, and
\* polled is the sum of the signed steps the player's decoder has emitted.
NewDec ==
  [t |-> debounce_ms, position |-> 0, last_encoder_time |-> 0,
   changed_at |-> Never, stepped_at |-> Never, prev_stepped_at |-> Never,
   polled |-> 0, edges |-> 0, ticks |-> 0]

\* No stop() in progress and none done yet (old is the handle the last stop()
\* began with, was its status then, sent the signal calls it made, waited the
\* seconds wait() took); cleanup() not begun (at), self.running set, the
\* button callbacks registered (detect), the encoder loop not inside a pass.
NewShut ==
  [pc |-> "idle", cmd |-> "", track |-> "", old |-> None, was |-> "",
   sent |-> <<>>, waited |-> 0,
   at |-> "idle", running |-> TRUE, detect |-> TRUE, in_loop |-> FALSE,
   order |-> <<>>, late |-> FALSE]

\* MusicDisplay.__init__: no volume change recorded, nothing rendered yet.
NewDisplay ==
  [last_volume_change_time |-> 0, notified |-> FALSE,
   show_volume |-> FALSE, force_show_volume |-> FALSE, renders |-> 0]

\* The colour palette of MusicDisplay, as (r, g, b).
DARK_BG == <<20, 25, 35>>
GREEN == <<52, 199, 89>>
VOLUME_BAR_BG == <<60, 65, 75>>

\* None, of a colour attribute and of an ID3 tag.
NoColour == <<>>
NoTag == <<>>

\* The buffer after clear(color): one colour all over.
Cleared(color) == [kind |-> "clear", background |-> color]

\* No render yet, and no input drawn for a single drawing routine.
NoArgs == [kind |-> "none"]

\* MusicDisplay.__init__: no theme colour extracted yet, the buffer cleared to
\* DARK_BG; nothing rendered (args, the arguments of the last render; repeat,
\* whether they equalled those of the render before; reads, the files it
\* opened), no drawing routine applied to an input.
NewPanel ==
  [current_bg_color |-> NoColour, current_accent_color |-> NoColour,
   image |-> Cleared(DARK_BG), prev_image |-> Cleared(DARK_BG),
   args |-> NoArgs, repeat |-> FALSE, same_track |-> FALSE, reads |-> 0,
   input |-> NoArgs, output |-> NoArgs]

\* Nothing is running yet; both encoder lines are pulled up.
AuxInit ==
  /\ nav = [start |-> 0, n_next |-> 0, n_prev |-> 0]
  /\ th = [t \in PlaybackThreads |-> Idle]
  /\ raised = FALSE
  /\ vt = [t \in VolumeThreads |-> VIdle]
  /\ enc = [a |-> 1, b |-> 1, last_a |-> 1, falls |-> 0]
  /\ ops = 0
  /\ vreq = [start |-> volume, sum |-> 0, reset |-> FALSE]
  /\ now = 0
  /\ display = NewDisplay
  /\ gpio = NewGpio
  /\ dec = NewDec
  /\ shut = NewShut

Init ==
  /\ playlist = <<>>
  /\ current_index = 0
  /\ state = "STOPPED"
  /\ volume = DefaultVolume
  /\ current_process = None
  /\ procs = <<>>
  /\ mixer = -1
  /\ play_all_i = -1
  /\ last = [cmd |-> "init", arg |-> 0, ok |-> TRUE, from |-> "STOPPED"]
  /\ AuxInit
  /\ panel = NewPanel

\* The step from the player as it is to the player t, taken by command cmd.
Becomes(t, cmd, arg, ok) ==
  /\ Len(t.procs) <= MaxLaunch
  /\ state' = t.state
  /\ current_index' = t.current_index
  /\ volume' = t.volume
  /\ current_process' = t.current_process
  /\ procs' = t.procs
  /\ mixer' = t.mixer
  /\ last' = [cmd |-> cmd, arg |-> arg, ok |-> ok, from |-> state]

\* load_playlist: the sorted paths found, none when the drive is empty.
LoadPlaylist ==
  /\ playlist = <<>>
  /\ \E n \in 0..MaxTracks : playlist' = SubSeq(Tracks, 1, n)
  /\ Becomes(Player, "load_playlist", 0, TRUE)
  /\ UNCHANGED play_all_i
  /\ UNCHANGED aux

\* player.play_file(player.playlist[0]) of interactive_mode and of main.
PlayFirst ==
  /\ Len(playlist) > 0
  /\ \E ok \in BOOLEAN : Becomes(play_file(Player, playlist[1], ok), "play_first", 0, ok)
  /\ UNCHANGED <<playlist, play_all_i>>
  /\ UNCHANGED aux

PlayByNumber ==
  /\ \E n \in 0..(MaxTracks + 1), ok \in BOOLEAN :
       Becomes(play_by_number(Player, playlist, n, ok), "play", n - 1, ok)
  /\ UNCHANGED <<playlist, play_all_i>>
  /\ UNCHANGED aux

PlayNextCmd ==
  /\ \E ok \in BOOLEAN : Becomes(play_next(Player, playlist, ok), "play_next", 0, ok)
  /\ UNCHANGED <<playlist, play_all_i>>

PlayNext == PlayNextCmd /\ UNCHANGED aux

PlayPreviousCmd ==
  /\ \E ok \in BOOLEAN :
       Becomes(play_previous(Player, playlist, ok), "play_previous", 0, ok)
  /\ UNCHANGED <<playlist, play_all_i>>

PlayPrevious == PlayPreviousCmd /\ UNCHANGED aux

Stop ==
  /\ Becomes(stop(Player), "stop", 0, TRUE)
  /\ UNCHANGED <<playlist, play_all_i>>
  /\ UNCHANGED aux

Pause ==
  /\ Becomes(pause(Player), "pause", 0, TRUE)
  /\ UNCHANGED <<playlist, play_all_i>>
  /\ UNCHANGED aux

Resume ==
  /\ Becomes(resume(Player), "resume", 0, TRUE)
  /\ UNCHANGED <<playlist, play_all_i>>
  /\ UNCHANGED aux

PlayPauseButton ==
  /\ \E ok \in BOOLEAN :
       Becomes(play_pause_callback(Player, playlist, ok), "play_pause", 0, ok)
  /\ UNCHANGED <<playlist, play_all_i>>
  /\ UNCHANGED aux

SetVolume ==
  /\ \E v \in VolumeInputs, ok \in BOOLEAN :
       Becomes(set_volume(Player, v, ok), "set_volume", v, ok)
  /\ UNCHANGED <<playlist, play_all_i>>
  /\ UNCHANGED aux

\* A press of the encoder's push-button; arg is the volume before the press.
EncoderButton ==
  /\ \E ok \in BOOLEAN :
       Becomes(encoder_button_callback(Player, ok), "encoder_button", volume, ok)
  /\ UNCHANGED <<playlist, play_all_i>>
  /\ UNCHANGED aux

\* One pass of the auto-advance loop; arg is 1 when the pass calls play_next.
MonitorPoll ==
  /\ \E ok \in BOOLEAN :
       Becomes(monitor_poll(Player, playlist, ok), "monitor_poll",
               IF ~is_process_running(Player) /\ state = "PLAYING" THEN 1 ELSE 0, ok)
  /\ UNCHANGED <<playlist, play_all_i>>
  /\ UNCHANGED aux

\* play_all: one step per track, taken once the previous process has ended.
PlayAllStart ==
  /\ play_all_i = -1
  /\ Len(playlist) > 0
  /\ play_all_i' = 0
  /\ Becomes(Player, "play_all_start", 0, TRUE)
  /\ UNCHANGED playlist
  /\ UNCHANGED aux

PlayAllIter ==
  /\ play_all_i \in 0..(Len(playlist) - 1)
  /\ play_all_i = 0 \/ ~is_process_running(Player)
  /\ \E ok \in BOOLEAN :
       Becomes(play_file([Player EXCEPT !.current_index = play_all_i],
                         playlist[play_all_i + 1], ok),
               "play_all_iter", play_all_i, ok)
  /\ play_all_i' = play_all_i + 1
  /\ UNCHANGED playlist
  /\ UNCHANGED aux

PlayAllEnd ==
  /\ play_all_i = Len(playlist)
  /\ play_all_i > 0
  /\ ~is_process_running(Player)
  /\ play_all_i' = -1
  /\ Becomes(Player, "play_all_end", 0, TRUE)
  /\ UNCHANGED playlist
  /\ UNCHANGED aux

\* mpg123 reaches the end of its file.
ProcessExit ==
  /\ \E p \in 1..Len(procs) :
       /\ procs[p].status = "running"
       /\ Becomes([Player EXCEPT !.procs[p] = Exited], "process_exit", p, TRUE)
  /\ UNCHANGED <<playlist, play_all_i>>
  /\ UNCHANGED aux

Next ==
  \/ LoadPlaylist
  \/ PlayFirst
  \/ PlayByNumber
  \/ PlayNext
  \/ PlayPrevious
  \/ Stop
  \/ Pause
  \/ Resume
  \/ PlayPauseButton
  \/ SetVolume
  \/ EncoderButton
  \/ MonitorPoll
  \/ PlayAllStart
  \/ PlayAllIter
  \/ PlayAllEnd
  \/ ProcessExit

Spec == Init /\ [][Next]_vars

\* ------------------------------------------------- runs of next and previous
\* Calls of play_next and of play_previous counted in one run.
MaxNav == 4

\* A loaded playlist and any index of it: where play(i) and stop leave the player.
InitNav ==
  /\ \E n \in 1..MaxTracks : playlist = SubSeq(Tracks, 1, n)
  /\ current_index \in 0..(MaxTracks - 1)
  /\ current_index < Len(playlist)
  /\ state = "STOPPED"
  /\ volume = DefaultVolume
  /\ current_process = None
  /\ procs = <<>>
  /\ mixer = -1
  /\ play_all_i = -1
  /\ last = [cmd |-> "init", arg |-> 0, ok |-> TRUE, from |-> "STOPPED"]
  /\ nav = [start |-> current_index, n_next |-> 0, n_prev |-> 0]
  /\ th = [t \in PlaybackThreads |-> Idle]
  /\ raised = FALSE
  /\ vt = [t \in VolumeThreads |-> VIdle]
  /\ enc = [a |-> 1, b |-> 1, last_a |-> 1, falls |-> 0]
  /\ ops = 0
  /\ vreq = [start |-> volume, sum |-> 0, reset |-> FALSE]
  /\ now = 0
  /\ display = NewDisplay
  /\ gpio = NewGpio
  /\ dec = NewDec
  /\ shut = NewShut
  /\ panel = NewPanel

NavNext ==
  /\ nav.n_next < MaxNav
  /\ PlayNextCmd
  /\ nav' = [nav EXCEPT !.n_next = @ + 1]
  /\ UNCHANGED <<th, raised, vt, enc, ops, vreq, now, display, gpio, dec, shut, panel>>

NavPrevious ==
  /\ nav.n_prev < MaxNav
  /\ PlayPreviousCmd
  /\ nav' = [nav EXCEPT !.n_prev = @ + 1]
  /\ UNCHANGED <<th, raised, vt, enc, ops, vreq, now, display, gpio, dec, shut, panel>>

NextNav == NavNext \/ NavPrevious

SpecNav == InitNav /\ [][NextNav]_vars

\* ------------------------------------------- playback commands, interleaved
\* The keyboard loop and monitor (main) and the GPIO callback thread (gpio)
\* run the same methods with no lock: one action per read or write of a field.
shared == <<volume, mixer, play_all_i, last, nav, vt, enc, ops, vreq, now, display, gpio, dec, shut, panel>>

At(t, pc) == th[t].pc = pc

Goto(t, pc) == th' = [th EXCEPT ![t].pc = pc]

Done(t) == th' = [th EXCEPT ![t] = Idle]

\* An exception leaves the method: the command is abandoned.
Raise(t) == Done(t) /\ raised' = TRUE

\* SIGTERM ends a running mpg123; a suspended one keeps it pending.
terminate(ps, p) ==
  IF p \in 1..Len(ps) /\ ps[p].status = "running" THEN [ps EXCEPT ![p] = Exited] ELSE ps

\* wait(timeout=2) returns for a finished process, else kill() ends it.
wait_kill(ps, p) ==
  IF p \in 1..Len(ps) THEN [ps EXCEPT ![p] = Exited] ELSE ps

ConcLoad ==
  /\ playlist = <<>>
  /\ At("main", "idle")
  /\ \E n \in 0..MaxConcTracks : playlist' = SubSeq(Tracks, 1, n)
  /\ UNCHANGED <<current_index, state, current_process, procs, th, raised, shared>>

\* 'n' typed or the next button pressed; 'p' typed or the previous button.
BeginNext(t) ==
  /\ At(t, "idle")
  /\ th' = [th EXCEPT ![t].pc = "pn", ![t].dir = 1]
  /\ UNCHANGED <<playlist, current_index, state, current_process, procs, raised, shared>>

BeginPrevious(t) ==
  /\ At(t, "idle")
  /\ th' = [th EXCEPT ![t].pc = "pn", ![t].dir = -1]
  /\ UNCHANGED <<playlist, current_index, state, current_process, procs, raised, shared>>

\* 's' typed.
BeginStop ==
  /\ At("main", "idle")
  /\ th' = [th EXCEPT !["main"].pc = "st", !["main"].ret = "idle"]
  /\ UNCHANGED <<playlist, current_index, state, current_process, procs, raised, shared>>

\* A number typed: an index in range is stored, another is refused.
BeginPlayNumber ==
  /\ At("main", "idle")
  /\ \E n \in 0..(MaxConcTracks + 1) :
       LET index == n - 1 IN
       IF 0 <= index /\ index < Len(playlist)
       THEN current_index' = index /\ Goto("main", "pn_arg")
       ELSE UNCHANGED <<current_index, th>>
  /\ UNCHANGED <<playlist, state, current_process, procs, raised, shared>>

\* The play/pause button.
BeginPlayPause ==
  /\ At("gpio", "idle")
  /\ Goto("gpio", "pp")
  /\ UNCHANGED <<playlist, current_index, state, current_process, procs, raised, shared>>

\* One pass of the auto-advance loop.
BeginMonitor ==
  /\ At("main", "idle")
  /\ Goto("main", "mo")
  /\ UNCHANGED <<playlist, current_index, state, current_process, procs, raised, shared>>

\* play_next / play_previous: if self.playlist: self.current_index = ...
NextIndex(t) ==
  /\ At(t, "pn")
  /\ IF Len(playlist) > 0
     THEN /\ current_index' = PyMod(current_index + th[t].dir, Len(playlist))
          /\ Goto(t, "pn_arg")
     ELSE Done(t) /\ UNCHANGED current_index
  /\ UNCHANGED <<playlist, state, current_process, procs, raised, shared>>

\* self.playlist[self.current_index], the argument of play_file.
ReadTrack(t) ==
  /\ At(t, "pn_arg")
  /\ th' = [th EXCEPT ![t].pc = "pf", ![t].path = playlist[current_index + 1]]
  /\ UNCHANGED <<playlist, current_index, state, current_process, procs, raised, shared>>

\* play_file: if self.current_process: self.stop()
PlayFileCheck(t) ==
  /\ At(t, "pf")
  /\ IF current_process # None
     THEN th' = [th EXCEPT ![t].pc = "st", ![t].ret = "pf_open"]
     ELSE Goto(t, "pf_open")
  /\ UNCHANGED <<playlist, current_index, state, current_process, procs, raised, shared>>

\* stop: if self.current_process:
StopCheck(t) ==
  /\ At(t, "st")
  /\ IF current_process # None
     THEN Goto(t, "st_term")
     ELSE th' = [th EXCEPT ![t].pc = th[t].ret, ![t].ret = "idle"]
  /\ UNCHANGED <<playlist, current_index, state, current_process, procs, raised, shared>>

\* self.current_process.terminate()
StopTerminate(t) ==
  /\ At(t, "st_term")
  /\ IF current_process = None
     THEN Raise(t) /\ UNCHANGED procs
     ELSE /\ procs' = terminate(procs, current_process)
          /\ Goto(t, "st_wait")
          /\ UNCHANGED raised
  /\ UNCHANGED <<playlist, current_index, state, current_process, shared>>

\* self.current_process.wait(timeout=2), and kill() when it times out.
StopWait(t) ==
  /\ At(t, "st_wait")
  /\ IF current_process = None
     THEN Raise(t) /\ UNCHANGED procs
     ELSE /\ procs' = wait_kill(procs, current_process)
          /\ Goto(t, "st_clear")
          /\ UNCHANGED raised
  /\ UNCHANGED <<playlist, current_index, state, current_process, shared>>

\* self.current_process = None
StopClear(t) ==
  /\ At(t, "st_clear")
  /\ current_process' = None
  /\ Goto(t, "st_state")
  /\ UNCHANGED <<playlist, current_index, state, procs, raised, shared>>

\* self.state = PlayerState.STOPPED, and stop returns.
StopState(t) ==
  /\ At(t, "st_state")
  /\ state' = "STOPPED"
  /\ th' = [th EXCEPT ![t].pc = th[t].ret, ![t].ret = "idle"]
  /\ UNCHANGED <<playlist, current_index, current_process, procs, raised, shared>>

\* subprocess.Popen(['mpg123', '-q', filepath]): the process runs, or Popen raises.
Open(t) ==
  /\ At(t, "pf_open")
  /\ \/ /\ Len(procs) < MaxConcLaunch
        /\ procs' = Append(procs, [track |-> th[t].path, status |-> "running"])
        /\ th' = [th EXCEPT ![t].pc = "pf_assign", ![t].h = Len(procs) + 1]
     \/ /\ Goto(t, "pf_fail")
        /\ UNCHANGED procs
  /\ UNCHANGED <<playlist, current_index, state, current_process, raised, shared>>

\* self.current_process = <the Popen object>
Assign(t) ==
  /\ At(t, "pf_assign")
  /\ current_process' = th[t].h
  /\ Goto(t, "pf_state")
  /\ UNCHANGED <<playlist, current_index, state, procs, raised, shared>>

\* self.state = PlayerState.PLAYING
SetPlaying(t) ==
  /\ At(t, "pf_state")
  /\ state' = "PLAYING"
  /\ Done(t)
  /\ UNCHANGED <<playlist, current_index, current_process, procs, raised, shared>>

\* except ...: self.state = PlayerState.STOPPED
SetStoppedOnFailure(t) ==
  /\ At(t, "pf_fail")
  /\ state' = "STOPPED"
  /\ Done(t)
  /\ UNCHANGED <<playlist, current_index, current_process, procs, raised, shared>>

\* _play_pause_callback: the branch on self.state.
PlayPauseRead ==
  /\ At("gpio", "pp")
  /\ IF state = "PLAYING" THEN Goto("gpio", "pa")
     ELSE IF state = "PAUSED" THEN Goto("gpio", "re")
     ELSE IF Len(playlist) > 0
     THEN th' = [th EXCEPT !["gpio"].pc = "pf",
                           !["gpio"].path = playlist[current_index + 1]]
     ELSE Done("gpio")
  /\ UNCHANGED <<playlist, current_index, state, current_process, procs, raised, shared>>

\* pause: if self.current_process and self.state == PlayerState.PLAYING:
PauseCheck(t) ==
  /\ At(t, "pa")
  /\ IF current_process # None /\ state = "PLAYING" THEN Goto(t, "pa_sig") ELSE Done(t)
  /\ UNCHANGED <<playlist, current_index, state, current_process, procs, raised, shared>>

\* self.current_process.send_signal(SIGSTOP); the bare except swallows a None.
PauseSignal(t) ==
  /\ At(t, "pa_sig")
  /\ IF current_process = None
     THEN Done(t) /\ UNCHANGED procs
     ELSE procs' = send_signal(procs, current_process, "SIGSTOP") /\ Goto(t, "pa_state")
  /\ UNCHANGED <<playlist, current_index, state, current_process, raised, shared>>

\* self.state = PlayerState.PAUSED
PauseState(t) ==
  /\ At(t, "pa_state")
  /\ state' = "PAUSED"
  /\ Done(t)
  /\ UNCHANGED <<playlist, current_index, current_process, procs, raised, shared>>

\* resume: if self.current_process and self.state == PlayerState.PAUSED:
ResumeCheck(t) ==
  /\ At(t, "re")
  /\ IF current_process # None /\ state = "PAUSED" THEN Goto(t, "re_sig") ELSE Done(t)
  /\ UNCHANGED <<playlist, current_index, state, current_process, procs, raised, shared>>

ResumeSignal(t) ==
  /\ At(t, "re_sig")
  /\ IF current_process = None
     THEN Done(t) /\ UNCHANGED procs
     ELSE procs' = send_signal(procs, current_process, "SIGCONT") /\ Goto(t, "re_state")
  /\ UNCHANGED <<playlist, current_index, state, current_process, raised, shared>>

ResumeState(t) ==
  /\ At(t, "re_state")
  /\ state' = "PLAYING"
  /\ Done(t)
  /\ UNCHANGED <<playlist, current_index, current_process, procs, raised, shared>>

\* is_process_running: if self.current_process:
MonitorCheck ==
  /\ At("main", "mo")
  /\ IF current_process # None THEN Goto("main", "mo_poll") ELSE Goto("main", "mo_state")
  /\ UNCHANGED <<playlist, current_index, state, current_process, procs, raised, shared>>

\* return self.current_process.poll() is None
MonitorPollProcess ==
  /\ At("main", "mo_poll")
  /\ IF current_process = None THEN Raise("main")
     ELSE /\ IF Alive(procs, current_process) THEN Done("main") ELSE Goto("main", "mo_state")
          /\ UNCHANGED raised
  /\ UNCHANGED <<playlist, current_index, state, current_process, procs, shared>>

\* ... and self.state == PlayerState.PLAYING: self.play_next()
MonitorState ==
  /\ At("main", "mo_state")
  /\ IF state = "PLAYING"
     THEN th' = [th EXCEPT !["main"].pc = "pn", !["main"].dir = 1]
     ELSE Done("main")
  /\ UNCHANGED <<playlist, current_index, state, current_process, procs, raised, shared>>

ConcProcessExit ==
  /\ \E p \in 1..Len(procs) :
       /\ procs[p].status = "running"
       /\ procs' = [procs EXCEPT ![p] = Exited]
  /\ UNCHANGED <<playlist, current_index, state, current_process, th, raised, shared>>

NextConc ==
  \/ ConcLoad
  \/ \E t \in PlaybackThreads : BeginNext(t)
  \/ \E t \in PlaybackThreads : BeginPrevious(t)
  \/ BeginStop
  \/ BeginPlayNumber
  \/ BeginPlayPause
  \/ BeginMonitor
  \/ \E t \in PlaybackThreads : NextIndex(t)
  \/ \E t \in PlaybackThreads : ReadTrack(t)
  \/ \E t \in PlaybackThreads : PlayFileCheck(t)
  \/ \E t \in PlaybackThreads : StopCheck(t)
  \/ \E t \in PlaybackThreads : StopTerminate(t)
  \/ \E t \in PlaybackThreads : StopWait(t)
  \/ \E t \in PlaybackThreads : StopClear(t)
  \/ \E t \in PlaybackThreads : StopState(t)
  \/ \E t \in PlaybackThreads : Open(t)
  \/ \E t \in PlaybackThreads : Assign(t)
  \/ \E t \in PlaybackThreads : SetPlaying(t)
  \/ \E t \in PlaybackThreads : SetStoppedOnFailure(t)
  \/ PlayPauseRead
  \/ \E t \in PlaybackThreads : PauseCheck(t)
  \/ \E t \in PlaybackThreads : PauseSignal(t)
  \/ \E t \in PlaybackThreads : PauseState(t)
  \/ \E t \in PlaybackThreads : ResumeCheck(t)
  \/ \E t \in PlaybackThreads : ResumeSignal(t)
  \/ \E t \in PlaybackThreads : ResumeState(t)
  \/ MonitorCheck
  \/ MonitorPollProcess
  \/ MonitorState
  \/ ConcProcessExit

SpecConc == Init /\ [][NextConc]_vars

\* --------------------------------------------- volume commands, interleaved
\* Volume commands begun in one behaviour.
MaxVolOps == 4

\* Volumes the earlier commands of a session have left.
VolumeStarts == {0, 3, 50, 80, 97, 100}

playback == <<playlist, current_index, state, current_process, procs,
              play_all_i, last, nav, th, raised, now, display, gpio, dec, shut, panel>>

InitVol ==
  /\ playlist = <<>>
  /\ current_index = 0
  /\ state = "STOPPED"
  /\ volume \in VolumeStarts
  /\ current_process = None
  /\ procs = <<>>
  /\ mixer = volume
  /\ play_all_i = -1
  /\ last = [cmd |-> "init", arg |-> 0, ok |-> TRUE, from |-> "STOPPED"]
  /\ AuxInit
  /\ panel = NewPanel

VAt(t, pc) == vt[t].pc = pc

\* '+' or '-' typed: volume_up / volume_down read self.volume and add the step.
BeginVolumeUp ==
  /\ VAt("main", "idle")
  /\ ops < MaxVolOps
  /\ ops' = ops + 1
  /\ vt' = [vt EXCEPT !["main"].pc = "store", !["main"].v = volume + KeyboardStep]
  /\ vreq' = [vreq EXCEPT !.sum = @ + KeyboardStep]
  /\ UNCHANGED <<volume, mixer, enc, playback>>

BeginVolumeDown ==
  /\ VAt("main", "idle")
  /\ ops < MaxVolOps
  /\ ops' = ops + 1
  /\ vt' = [vt EXCEPT !["main"].pc = "store", !["main"].v = volume - KeyboardStep]
  /\ vreq' = [vreq EXCEPT !.sum = @ - KeyboardStep]
  /\ UNCHANGED <<volume, mixer, enc, playback>>

\* The encoder push-button: set_volume(80).
BeginEncoderButton ==
  /\ VAt("gpio", "idle")
  /\ ops < MaxVolOps
  /\ ops' = ops + 1
  /\ vt' = [vt EXCEPT !["gpio"].pc = "store", !["gpio"].v = DefaultVolume]
  /\ vreq' = [vreq EXCEPT !.reset = TRUE]
  /\ UNCHANGED <<volume, mixer, enc, playback>>

\* The knob turns: one of the two lines changes level.
EncoderLine ==
  /\ \/ enc' = [enc EXCEPT !.a = 1 - @]
     \/ enc' = [enc EXCEPT !.b = 1 - @]
  /\ UNCHANGED <<volume, mixer, vt, ops, vreq, playback>>

\* _volume_control_thread: a_state = GPIO.input(a_pin); if a_state != self.last_a_state:
EncoderReadA ==
  /\ VAt("encoder", "idle")
  /\ enc.a # enc.last_a
  /\ ops < MaxVolOps
  /\ ops' = ops + 1
  /\ vt' = [vt EXCEPT !["encoder"].pc = "read_b", !["encoder"].a = enc.a]
  /\ UNCHANGED <<volume, mixer, enc, vreq, playback>>

\* b_state = GPIO.input(b_pin); volume_up(step=2) if b_state != a_state else volume_down(step=2)
EncoderReadB ==
  /\ VAt("encoder", "read_b")
  /\ vt' = [vt EXCEPT !["encoder"].pc = "store",
                      !["encoder"].b = enc.b,
                      !["encoder"].v = IF enc.b # vt["encoder"].a
                                       THEN volume + EncoderStep
                                       ELSE volume - EncoderStep]
  /\ vreq' = [vreq EXCEPT !.sum = @ + (IF enc.b # vt["encoder"].a
                                         THEN EncoderStep ELSE -EncoderStep)]
  /\ UNCHANGED <<volume, mixer, enc, ops, playback>>

\* set_volume: self.volume = max(0, min(100, volume))
StoreVolume(t) ==
  /\ VAt(t, "store")
  /\ volume' = clamp(vt[t].v)
  /\ vt' = [vt EXCEPT ![t].pc = "push"]
  /\ UNCHANGED <<mixer, enc, ops, vreq, playback>>

\* set_volume: amixer set PCM f'{self.volume}%'
PushVolume(t) ==
  /\ VAt(t, "push")
  /\ mixer' = volume
  /\ vt' = [vt EXCEPT ![t] = IF t = "encoder" THEN [@ EXCEPT !.pc = "set_last"] ELSE VIdle]
  /\ UNCHANGED <<volume, enc, ops, vreq, playback>>

\* self.last_a_state = a_state
EncoderSetLast ==
  /\ VAt("encoder", "set_last")
  /\ enc' = [enc EXCEPT !.last_a = vt["encoder"].a]
  /\ vt' = [vt EXCEPT !["encoder"] = VIdle]
  /\ UNCHANGED <<volume, mixer, ops, vreq, playback>>

NextVol ==
  \/ BeginVolumeUp
  \/ BeginVolumeDown
  \/ BeginEncoderButton
  \/ EncoderLine
  \/ EncoderReadA
  \/ EncoderReadB
  \/ \E t \in VolumeThreads : StoreVolume(t)
  \/ \E t \in VolumeThreads : PushVolume(t)
  \/ EncoderSetLast

SpecVol == InitVol /\ [][NextVol]_vars

\* ------------------------------------------------- the knob, turned slowly
\* The encoder thread alone: every change of a line is polled, and the step it
\* causes stored, before the next change. falls counts the falls of A with B high.
KnobAFalls ==
  /\ VAt("encoder", "idle")
  /\ enc.a = enc.last_a
  /\ enc.a = 1 /\ enc.b = 1
  /\ enc' = [enc EXCEPT !.a = 0, !.falls = @ + 1]
  /\ UNCHANGED <<volume, mixer, vt, ops, vreq, playback>>

KnobARises ==
  /\ VAt("encoder", "idle")
  /\ enc.a = enc.last_a
  /\ enc.a = 0
  /\ enc' = [enc EXCEPT !.a = 1]
  /\ UNCHANGED <<volume, mixer, vt, ops, vreq, playback>>

KnobB ==
  /\ VAt("encoder", "idle")
  /\ enc.a = enc.last_a
  /\ enc' = [enc EXCEPT !.b = 1 - @]
  /\ UNCHANGED <<volume, mixer, vt, ops, vreq, playback>>

NextEnc ==
  \/ KnobAFalls
  \/ KnobARises
  \/ KnobB
  \/ EncoderReadA
  \/ EncoderReadB
  \/ StoreVolume("encoder")
  \/ PushVolume("encoder")
  \/ EncoderSetLast

SpecEnc == InitVol /\ [][NextEnc]_vars

\* ----------------------------------------------------- the display's timer
\* The last clock reading of a behaviour, and the renders counted in one.
MaxClock == 8
MaxRenders == 4

volume_display_duration == 3

\* _should_show_volume_bar at clock reading t.
should_show_volume_bar(d, t) ==
  IF d.last_volume_change_time = 0 THEN FALSE
  ELSE t - d.last_volume_change_time < volume_display_duration

\* notify_volume_change at clock reading t.
notify_volume_change(d, t) ==
  [d EXCEPT !.last_volume_change_time = t, !.notified = TRUE]

\* update_now_playing at clock reading t: the side panel is drawn or not.
update_now_playing(d, force, t) ==
  [d EXCEPT !.show_volume = force \/ should_show_volume_bar(d, t),
            !.force_show_volume = force,
            !.renders = @ + 1]

player == <<playlist, current_index, state, volume, current_process, procs,
            mixer, play_all_i, last, nav, th, raised, vt, enc, ops, vreq>>

\* The clock moves on.
Tick ==
  /\ now < MaxClock
  /\ now' = now + 1
  /\ UNCHANGED <<display, gpio, dec, shut, panel, player>>

NotifyVolumeChange ==
  /\ display' = notify_volume_change(display, now)
  /\ UNCHANGED <<now, gpio, dec, shut, panel, player>>

UpdateNowPlaying ==
  /\ display.renders < MaxRenders
  /\ \E force \in BOOLEAN : display' = update_now_playing(display, force, now)
  /\ UNCHANGED <<now, gpio, dec, shut, panel, player>>

NextDisplay ==
  \/ Tick
  \/ NotifyVolumeChange
  \/ UpdateNowPlaying

SpecDisplay == Init /\ [][NextDisplay]_vars

\* ------------------------------------------------------ the button inputs
\* Clock steps of half a debounce interval, and button presses, in one behaviour.
MaxButtonTicks == 5
MaxFalls == 4

event_detected_both(g, b, edge) ==
  /\ edge \in {"FALLING", "RISING"}
  /\ g.lastcall[b] = Never \/ g.t - g.lastcall[b] > debounce_ms

\* GPIO.add_event_detect(pin, GPIO.FALLING, callback, bouncetime=debounce_ms):
\* the callback of a pin runs on a falling edge of that pin, unless an edge of
\* that pin ran it within the last bouncetime milliseconds.
event_detected(g, b, edge) ==
  /\ edge = "FALLING"
  /\ g.lastcall[b] = Never \/ g.t - g.lastcall[b] > debounce_ms

\* An edge on the line of button b, to level l.
edge_on(g, b, l) ==
  LET h == [g EXCEPT !.level[b] = l,
                     !.falls = IF l = 0 THEN @ + 1 ELSE @] IN
  IF event_detected(g, b, IF l = 0 THEN "FALLING" ELSE "RISING")
  THEN [h EXCEPT !.lastcall[b] = g.t,
                 !.calls[b] = @ + 1,
                 !.called_at[b] = g.t]
  ELSE h

others == <<now, display, dec, shut, panel, player>>

ButtonTick ==
  /\ gpio.t < MaxButtonTicks * (debounce_ms \div 2)
  /\ gpio' = [gpio EXCEPT !.t = @ + (debounce_ms \div 2)]
  /\ UNCHANGED others

\* The button is pushed, or its contact bounces closed.
Press(b) ==
  /\ gpio.level[b] = 1
  /\ gpio.falls < MaxFalls
  /\ gpio' = edge_on(gpio, b, 0)
  /\ UNCHANGED others

\* The button is let go, or its contact bounces open.
Release(b) ==
  /\ gpio.level[b] = 0
  /\ gpio' = edge_on(gpio, b, 1)
  /\ UNCHANGED others

NextButtons ==
  \/ ButtonTick
  \/ \E b \in Buttons : Press(b)
  \/ \E b \in Buttons : Release(b)

SpecButtons == Init /\ [][NextButtons]_vars

\* --------------------------------------------------- the two encoder decoders
\* The player's polled decoder and EncoderTest's interrupt decoder, wired to the
\* same A and B lines. Line A changes at most once per clock reading, so the
\* 1 ms poll sees every level of A and the 1 ms bouncetime of EncoderTest's
\* add_event_detect never drops an edge.
MaxDecTicks == 3
MaxEdges == 4

\* One pass of the loop of _volume_control_thread over the line levels of e:
\* the signed step it emits, 0 when A equals self.last_a_state.
polled_step(e) ==
  IF e.a # e.last_a
  THEN IF e.b # e.a THEN EncoderStep ELSE -EncoderStep
  ELSE 0

\* The same pass, on the player: volume_up(step=2) or volume_down(step=2).
volume_control_poll(s, e, mixer_ok) ==
  IF e.a # e.last_a
  THEN IF e.b # e.a THEN volume_up(s, EncoderStep, mixer_ok)
                    ELSE volume_down(s, EncoderStep, mixer_ok)
  ELSE s

\* EncoderTest._encoder_callback, run on a falling edge of A at time t: return
\* within debounce_time of the last counted edge, else count by the level of B.
encoder_callback(d, b_state, t) ==
  IF t - d.last_encoder_time < debounce_time_ms
  THEN d
  ELSE [d EXCEPT !.last_encoder_time = t,
                 !.position = IF b_state = 1 THEN @ + 1 ELSE @ - 1]

\* The clock moves on by half of EncoderTest's debounce or by a button debounce.
DecTick ==
  /\ \E d \in {debounce_time_ms \div 2, debounce_ms} :
       /\ dec.ticks < MaxDecTicks
       /\ dec' = [dec EXCEPT !.t = @ + d, !.ticks = @ + 1]
  /\ UNCHANGED <<playlist, current_index, state, volume, current_process, procs,
                 mixer, play_all_i, last, nav, th, raised, vt, enc, ops, vreq,
                 now, display, gpio, shut, panel>>

\* Line A changes level. The player's loop reads the new level, steps the
\* volume and stores last_a_state; on a falling edge EncoderTest's callback runs.
TurnA ==
  /\ dec.edges < MaxEdges
  /\ dec.changed_at < dec.t
  /\ LET e == [enc EXCEPT !.a = 1 - @]
         d == IF e.a = 0 THEN encoder_callback(dec, e.b, dec.t) ELSE dec
     IN /\ \E ok \in BOOLEAN :
             Becomes(volume_control_poll(Player, e, ok), "encoder_step",
                     polled_step(e), ok)
        /\ enc' = [e EXCEPT !.last_a = e.a,
                            !.falls = IF e.a = 0 THEN @ + 1 ELSE @]
        /\ dec' = [d EXCEPT !.changed_at = dec.t,
                            !.prev_stepped_at = dec.stepped_at,
                            !.stepped_at = dec.t,
                            !.polled = @ + polled_step(e) \div EncoderStep,
                            !.edges = @ + 1]
  /\ UNCHANGED <<playlist, play_all_i, nav, th, raised, vt, ops, vreq,
                 now, display, gpio, shut, panel>>

\* Line B changes level; neither decoder watches B.
TurnB ==
  /\ enc' = [enc EXCEPT !.b = 1 - @]
  /\ UNCHANGED <<playlist, current_index, state, volume, current_process, procs,
                 mixer, play_all_i, last, nav, th, raised, vt, ops, vreq,
                 now, display, gpio, dec, shut, panel>>

NextDec ==
  \/ DecTick
  \/ TurnA
  \/ TurnB

SpecDec == InitVol /\ [][NextDec]_vars

\* ------------------------------------------------------- stop(), step by step
\* One thread runs stop and play_file; stop() is followed through terminate(),
\* wait(timeout=2) and kill(), on processes that may ignore SIGTERM.
wait_timeout == 2

\* Popen.terminate(): SIGTERM. A running process exits on it when reacts is
\* TRUE; to a suspended process the signal is not delivered until SIGCONT.
sigterm(ps, p, reacts) ==
  IF p \in 1..Len(ps) /\ ps[p].status = "running" /\ reacts
  THEN [ps EXCEPT ![p] = Exited]
  ELSE ps

kill_like_terminate(ps, p) == sigterm(ps, p, TRUE)

\* Popen.kill(): SIGKILL ends the process, running or suspended.
kill(ps, p) ==
  IF p \in 1..Len(ps) THEN [ps EXCEPT ![p] = Exited] ELSE ps

StopIdle == shut.pc = "idle"

\* stop() is called with a process handle set.
CallStop ==
  /\ StopIdle
  /\ current_process # None
  /\ shut' = [shut EXCEPT !.pc = "terminate", !.cmd = "stop",
                          !.old = current_process,
                          !.was = procs[current_process].status,
                          !.sent = <<>>, !.waited = 0]
  /\ UNCHANGED <<playlist, current_index, state, volume, current_process, procs,
                 mixer, play_all_i, last, nav, th, raised, vt, enc, ops, vreq,
                 now, display, gpio, dec, panel>>

\* play_file(filepath): `if self.current_process: self.stop()`, then the launch.
CallPlayFile ==
  /\ StopIdle
  /\ Len(procs) < MaxLaunch
  /\ \E f \in {Tracks[i] : i \in 1..Len(Tracks)} :
       shut' = IF current_process # None
               THEN [shut EXCEPT !.pc = "terminate", !.cmd = "play", !.track = f,
                                 !.old = current_process,
                                 !.was = procs[current_process].status,
                                 !.sent = <<>>, !.waited = 0]
               ELSE [shut EXCEPT !.pc = "launch", !.cmd = "play", !.track = f]
  /\ UNCHANGED <<playlist, current_index, state, volume, current_process, procs,
                 mixer, play_all_i, last, nav, th, raised, vt, enc, ops, vreq,
                 now, display, gpio, dec, panel>>

\* self.current_process.terminate()
StopSigterm ==
  /\ shut.pc = "terminate"
  /\ \E reacts \in BOOLEAN : procs' = sigterm(procs, current_process, reacts)
  /\ shut' = [shut EXCEPT !.pc = "wait",
                          !.sent = Append(@, "SIGTERM")]
  /\ UNCHANGED <<playlist, current_index, state, volume, current_process,
                 mixer, play_all_i, last, nav, th, raised, vt, enc, ops, vreq,
                 now, display, gpio, dec, panel>>

\* self.current_process.wait(timeout=2): returns once the process has exited,
\* which a running process may do by itself within the two seconds; raises
\* TimeoutExpired after two seconds otherwise.
StopWaitTimeout ==
  /\ shut.pc = "wait"
  /\ \/ /\ ~Alive(procs, current_process)
        /\ shut' = [shut EXCEPT !.pc = "clear"]
        /\ UNCHANGED procs
     \/ /\ Alive(procs, current_process)
        /\ procs[current_process].status = "running"
        /\ \E w \in 0..wait_timeout :
             shut' = [shut EXCEPT !.pc = "clear", !.waited = w]
        /\ procs' = [procs EXCEPT ![current_process] = Exited]
     \/ /\ Alive(procs, current_process)
        /\ shut' = [shut EXCEPT !.pc = "kill", !.waited = wait_timeout]
        /\ UNCHANGED procs
  /\ UNCHANGED <<playlist, current_index, state, volume, current_process,
                 mixer, play_all_i, last, nav, th, raised, vt, enc, ops, vreq,
                 now, display, gpio, dec, panel>>

\* except subprocess.TimeoutExpired: self.current_process.kill()
StopKill ==
  /\ shut.pc = "kill"
  /\ procs' = kill(procs, current_process)
  /\ shut' = [shut EXCEPT !.pc = "clear", !.sent = Append(@, "SIGKILL")]
  /\ UNCHANGED <<playlist, current_index, state, volume, current_process,
                 mixer, play_all_i, last, nav, th, raised, vt, enc, ops, vreq,
                 now, display, gpio, dec, panel>>

\* self.current_process = None; self.state = PlayerState.STOPPED
StopClearHandle ==
  /\ shut.pc = "clear"
  /\ current_process' = None
  /\ state' = "STOPPED"
  /\ last' = [cmd |-> "stop", arg |-> shut.old, ok |-> TRUE, from |-> state]
  /\ shut' = [shut EXCEPT !.pc = IF shut.cmd = "play" THEN "launch" ELSE "idle"]
  /\ UNCHANGED <<playlist, current_index, volume, procs,
                 mixer, play_all_i, nav, th, raised, vt, enc, ops, vreq,
                 now, display, gpio, dec, panel>>

\* The try block of play_file: Popen, state = PLAYING; STOPPED when it raises.
StopLaunch ==
  /\ shut.pc = "launch"
  /\ \E ok \in BOOLEAN :
       Becomes(play_file_no_stop(Player, shut.track, ok), "play_file", 0, ok)
  /\ shut' = [shut EXCEPT !.pc = "idle"]
  /\ UNCHANGED <<playlist, play_all_i, nav, th, raised, vt, enc, ops, vreq,
                 now, display, gpio, dec, panel>>

StopStep ==
  \/ StopSigterm
  \/ StopWaitTimeout
  \/ StopKill
  \/ StopClearHandle
  \/ StopLaunch

NextStop ==
  \/ CallStop
  \/ CallPlayFile
  \/ StopStep
  \/ StopIdle /\ Pause
  \/ StopIdle /\ Resume
  \/ StopIdle /\ ProcessExit

SpecStop == Init /\ [][NextStop]_vars

\* ---------------------------------------------------------------- shutdown
\* cleanup() on the main thread, beside the GPIO callback thread and the
\* encoder thread; each callback and each statement of cleanup() is one step.

\* The callbacks registered by setup_gpio_controls, by button.
button_callback(b, s, pl, ok) ==
  IF b = "play_pause" THEN play_pause_callback(s, pl, ok)
  ELSE IF b = "next" THEN play_next(s, pl, ok)
  ELSE IF b = "prev" THEN play_previous(s, pl, ok)
  ELSE encoder_button_callback(s, ok)

TeardownBegun == shut.at # "idle"

\* A falling edge on a button whose event detection is still registered.
ButtonCallback(b) ==
  /\ shut.detect
  /\ \E ok \in BOOLEAN :
       LET t == button_callback(b, Player, playlist, ok) IN
       /\ Becomes(t, b, 0, ok)
       /\ shut' = [shut EXCEPT !.late = @ \/ (TeardownBegun /\ t # Player)]
  /\ UNCHANGED <<playlist, play_all_i, nav, th, raised, vt, enc, ops, vreq,
                 now, display, gpio, dec, panel>>

\* `while self.running:` is found true and a pass of the encoder loop begins.
EncoderEnter ==
  /\ shut.at # "done"
  /\ shut.running /\ ~shut.in_loop
  /\ shut' = [shut EXCEPT !.in_loop = TRUE]
  /\ UNCHANGED <<playlist, current_index, state, volume, current_process, procs,
                 mixer, play_all_i, last, nav, th, raised, vt, enc, ops, vreq,
                 now, display, gpio, dec, panel>>

\* The pass: line A may have changed since the pass before, and then the
\* volume is stepped; time.sleep(0.001) ends the pass.
EncoderPass ==
  /\ shut.at # "done"
  /\ shut.in_loop
  /\ ops < MaxVolOps
  /\ ops' = ops + 1
  /\ \E a \in {0, 1}, ok \in BOOLEAN :
       LET e == [enc EXCEPT !.a = a]
           t == volume_control_poll(Player, e, ok)
       IN /\ Becomes(t, "encoder_step", polled_step(e), ok)
          /\ enc' = [e EXCEPT !.last_a = a]
          /\ shut' = [shut EXCEPT !.in_loop = FALSE,
                                  !.late = @ \/ (TeardownBegun /\ t # Player)]
  /\ UNCHANGED <<playlist, play_all_i, nav, th, raised, vt, vreq,
                 now, display, gpio, dec, panel>>

\* cleanup(): self.running = False
CleanupRunning ==
  /\ shut.at = "idle"
  /\ shut' = [shut EXCEPT !.at = "stop", !.running = FALSE,
                          !.order = Append(@, "encoder")]
  /\ UNCHANGED <<playlist, current_index, state, volume, current_process, procs,
                 mixer, play_all_i, last, nav, th, raised, vt, enc, ops, vreq,
                 now, display, gpio, dec, panel>>

\* cleanup(): self.stop()
CleanupStop ==
  /\ shut.at = "stop"
  /\ Becomes(stop(Player), "cleanup", 0, TRUE)
  /\ shut' = [shut EXCEPT !.at = "gpio", !.order = Append(@, "audio")]
  /\ UNCHANGED <<playlist, play_all_i, nav, th, raised, vt, enc, ops, vreq,
                 now, display, gpio, dec, panel>>

\* cleanup(): GPIO.cleanup() removes the event detection of every button.
CleanupGpio ==
  /\ shut.at = "gpio"
  /\ shut' = [shut EXCEPT !.at = "exit", !.detect = FALSE,
                          !.order = Append(@, "buttons")]
  /\ UNCHANGED <<playlist, current_index, state, volume, current_process, procs,
                 mixer, play_all_i, last, nav, th, raised, vt, enc, ops, vreq,
                 now, display, gpio, dec, panel>>

\* cleanup(): sys.exit(0); the daemon encoder thread ends with the program.
CleanupExit ==
  /\ shut.at = "exit"
  /\ shut' = [shut EXCEPT !.at = "done"]
  /\ UNCHANGED <<playlist, current_index, state, volume, current_process, procs,
                 mixer, play_all_i, last, nav, th, raised, vt, enc, ops, vreq,
                 now, display, gpio, dec, panel>>

NextShutdown ==
  \/ LoadPlaylist
  \/ \E b \in Buttons : ButtonCallback(b)
  \/ EncoderEnter
  \/ EncoderPass
  \/ CleanupRunning
  \/ CleanupStop
  \/ CleanupGpio
  \/ CleanupExit

SpecShutdown == Init /\ [][NextShutdown]_vars

\* ------------------------------------------------------ the display's buffer
\* Strings are sequences of characters; a track file is its path, in three
\* parts, whether mutagen can read it, its TIT2 and TALB tags and its APIC
\* artwork, an image of one colour when it decodes.
MaxTextLen == 5
MaxTextWidth == 8
MaxPixels == 3

width == 320
num_segments == 10
bar_start_y == 35
segment_height == 10
segment_gap == 4
artwork_size == 160
volume_bar_area == 30

Mp3 == <<".", "m", "p", "3">>
UnknownAlbum == <<"Unknown Album">>
Ellipsis == <<".", ".", ".">>

ArtColours == {<<200, 40, 40>>, <<30, 60, 90>>}

Artworks ==
  {[kind |-> "none", colour |-> NoColour],
   [kind |-> "undecodable", colour |-> NoColour]}
  \cup {[kind |-> "image", colour |-> c] : c \in ArtColours}

FileNames ==
  {[dir |-> d, stem |-> n, ext |-> e] :
     d \in {<<>>, <<"m", "/">>, <<"m", ".", "d", "/">>},
     n \in {<<"s">>, <<"s", ".", "t">>},
     e \in {Mp3}}
  \cup {[dir |-> d, stem |-> <<"s">>, ext |-> <<>>] :
          d \in {<<>>, <<"m", "/">>, <<"m", ".", "d", "/">>}}

FileInputs ==
  {[name |-> n, readable |-> r, title |-> t, album |-> a, art |-> w] :
     n \in FileNames, r \in BOOLEAN, t \in {NoTag, <<"T">>},
     a \in {NoTag, <<"L">>}, w \in Artworks}

Path(f) == f.name.dir \o f.name.stem \o f.name.ext

\* The last index of character c in s, 0 when there is none.
LastIndexOf(s, c) ==
  IF \E i \in 1..Len(s) : s[i] = c
  THEN CHOOSE i \in 1..Len(s) : s[i] = c /\ \A j \in (i + 1)..Len(s) : s[j] # c
  ELSE 0

\* filename.split('/')[-1].rsplit('.', 1)[0]
filename_fallback(filename) ==
  LET base == SubSeq(filename, LastIndexOf(filename, "/") + 1, Len(filename))
      dot == LastIndexOf(base, ".")
  IN IF dot = 0 THEN base ELSE SubSeq(base, 1, dot - 1)

extract_metadata_unknown_track(f) ==
  IF f.readable
  THEN [song_name |-> IF f.title # NoTag THEN f.title ELSE <<"Unknown Track">>,
        album_name |-> IF f.album # NoTag THEN f.album ELSE UnknownAlbum]
  ELSE [song_name |-> <<"Unknown Track">>, album_name |-> UnknownAlbum]

\* _extract_metadata: MP3(filename) raises for a file it cannot read.
extract_metadata(f) ==
  IF f.readable
  THEN [song_name |-> IF f.title # NoTag THEN f.title
                      ELSE filename_fallback(Path(f)),
        album_name |-> IF f.album # NoTag THEN f.album ELSE UnknownAlbum]
  ELSE [song_name |-> filename_fallback(Path(f)), album_name |-> UnknownAlbum]

\* paste_album_art(..., return_image=True): ID3(mp3_file) or Image.open may
\* raise, and the bare except then gives (False, None).
paste_album_art(f) ==
  IF f.readable /\ f.art.kind = "image"
  THEN [has_art |-> TRUE, artwork |-> f.art.colour]
  ELSE [has_art |-> FALSE, artwork |-> NoColour]

\* _extract_colors_from_artwork on an image whose weighted average colour is
\* avg: background int(avg * 0.4), accent min(255, int(avg * 0.8)) by channel.
extract_colors_from_artwork(avg) ==
  [bg |-> [i \in 1..3 |-> (avg[i] * 4) \div 10],
   accent |-> [i \in 1..3 |-> Min(255, (avg[i] * 8) \div 10)]]

\* The pixels of the artwork after resize((50, 50)): every pixel of an RGB or
\* RGBA image is a tuple of at least three channels, a pixel of a greyscale
\* image is not.  Dark pixels weigh 1.0 and bright ones 0.5; the model counts
\* in halves, so the weights are 2 and 1.
is_colour_pixel(pixel) == Len(pixel) >= 3

pixel_weight_uniform(pixel) == 2

pixel_weight(pixel) ==
  IF pixel[1] + pixel[2] + pixel[3] < 3 * 128 THEN 2 ELSE 1

RECURSIVE weighted_total(_, _)
weighted_total(pixels, c) ==
  IF pixels = <<>> THEN 0
  ELSE (IF is_colour_pixel(Head(pixels))
        THEN pixel_weight(Head(pixels)) * Head(pixels)[c] ELSE 0)
       + weighted_total(Tail(pixels), c)

RECURSIVE weighted_count(_)
weighted_count(pixels) ==
  IF pixels = <<>> THEN 0
  ELSE (IF is_colour_pixel(Head(pixels)) THEN pixel_weight(Head(pixels)) ELSE 0)
       + weighted_count(Tail(pixels))

\* _extract_colors_from_artwork(artwork_image) from the pixels: the weighted
\* average by channel, then the two colours; the default pair when no pixel
\* counted.
extract_colors_from_pixels(pixels) ==
  IF weighted_count(pixels) > 0
  THEN extract_colors_from_artwork(
         [c \in 1..3 |-> weighted_total(pixels, c) \div weighted_count(pixels)])
  ELSE [bg |-> DARK_BG, accent |-> GREEN]

draw_vertical_volume_bar_top_down(vol, accent) ==
  LET filled_segments == (vol * num_segments) \div 100 IN
  [i \in 0..(num_segments - 1) |->
     [seg_y |-> bar_start_y + i * (segment_height + segment_gap),
      filled |-> i < filled_segments,
      fill |-> IF i < filled_segments THEN accent ELSE VOLUME_BAR_BG]]

\* _draw_vertical_volume_bar: the segments in drawing order i = 0..9, each
\* with its top edge seg_y and its fill; filled_segments is
\* int((volume / 100) * num_segments).
draw_vertical_volume_bar(vol, accent) ==
  LET filled_segments == (vol * num_segments) \div 100 IN
  [i \in 0..(num_segments - 1) |->
     LET segment_index == num_segments - i - 1 IN
     [seg_y |-> bar_start_y + i * (segment_height + segment_gap),
      filled |-> segment_index < filled_segments,
      fill |-> IF segment_index < filled_segments THEN accent ELSE VOLUME_BAR_BG]]

\* draw.textbbox: the width of a text is the sum of the widths of its
\* characters, narrow ones 1 and wide ones 3.
CharWidth(c) == IF c \in {"i", "."} THEN 1 ELSE 3

RECURSIVE TextWidth(_)
TextWidth(text) ==
  IF text = <<>> THEN 0
  ELSE CharWidth(Head(text)) + TextWidth(Tail(text))

\* while text_width > max_width and len(text) > 3: drop the last character
\* and measure text + "..."
RECURSIVE truncate_loop(_, _, _)
truncate_loop(text, text_width, max_width) ==
  IF text_width > max_width /\ Len(text) > 3
  THEN LET t == SubSeq(text, 1, Len(text) - 1) IN
       truncate_loop(t, TextWidth(t \o Ellipsis), max_width)
  ELSE text

truncate_no_floor(text, max_width) ==
  IF max_width # 0 /\ TextWidth(text) > max_width
  THEN SubSeq(text, 1, Len(text) - 1) \o Ellipsis
  ELSE text

\* The text _draw_text_with_truncate draws; max_width 0 stands for a max_width
\* that is not truthy (0 or None).
truncate(text, max_width) ==
  IF max_width # 0 /\ TextWidth(text) > max_width
  THEN truncate_loop(text, TextWidth(text), max_width) \o Ellipsis
  ELSE text

\* The colour clear() fills with, and the colour of a filled bar segment.
ClearColour(p) ==
  IF p.current_bg_color # NoColour THEN p.current_bg_color ELSE DARK_BG

AccentColour(p) ==
  IF p.current_accent_color # NoColour THEN p.current_accent_color ELSE GREEN

\* show_splash: clear(), then the three fixed texts.
show_splash(p) ==
  [p EXCEPT !.image = [kind |-> "splash", background |-> ClearColour(p)],
            !.reads = 0]

\* update_now_playing on panel p, show_volume already decided: clear(), the
\* volume bar, the metadata, the artwork or the placeholder and the theme
\* colours, the two texts, the pause overlay; the buffer is then handed to the
\* display driver.
update_now_playing_image(p, f, st, vol, show_volume) ==
  LET volume_bar_width == IF show_volume THEN volume_bar_area ELSE 0
      main_content_width == width - volume_bar_width
      meta == extract_metadata(f)
      with_art == st \in {"PLAYING", "PAUSED"}
      art == paste_album_art(f)
      colours == IF with_art /\ art.has_art
                 THEN extract_colors_from_artwork(art.artwork)
                 ELSE [bg |-> DARK_BG, accent |-> GREEN]
      text_max_width == main_content_width - 50 - 10
  IN [p EXCEPT
        !.image =
          [kind |-> "now_playing",
           background |-> ClearColour(p),
           bar |-> IF show_volume
                   THEN [shown |-> TRUE, text |-> vol,
                         segments |-> draw_vertical_volume_bar(vol, AccentColour(p))]
                   ELSE [shown |-> FALSE, text |-> 0,
                         segments |-> draw_vertical_volume_bar(0, VOLUME_BAR_BG)],
           artwork_x |-> (main_content_width - artwork_size) \div 2,
           artwork |-> IF with_art /\ art.has_art
                       THEN [placeholder |-> FALSE, colour |-> art.artwork]
                       ELSE [placeholder |-> TRUE, colour |-> VOLUME_BAR_BG],
           title |-> truncate(meta.song_name, text_max_width),
           album |-> truncate(meta.album_name, text_max_width),
           text_area_x2 |-> main_content_width - 10,
           pause_overlay |-> st = "PAUSED"],
        !.current_bg_color = colours.bg,
        !.current_accent_color = colours.accent,
        !.reads = IF with_art THEN 2 ELSE 1]

\* The track files rendered: two with tags and artwork of different colours,
\* one readable without tags or artwork, one unreadable.
PanelFiles ==
  {f \in FileInputs :
     /\ f.name = [dir |-> <<"m", "/">>, stem |-> <<"s">>, ext |-> Mp3]
     /\ \/ f.readable /\ f.title # NoTag /\ f.album # NoTag /\ f.art.kind = "image"
        \/ f.title = NoTag /\ f.album = NoTag /\ f.art.kind = "none"}

PanelVolumes == {35, 100}

PlayerStates == {"PLAYING", "PAUSED", "STOPPED"}

\* What a render leaves behind it: the buffer before it, and whether its
\* arguments and its track are those of the render before.
Rendered(p, q, args) ==
  [q EXCEPT !.prev_image = p.image,
            !.args = args,
            !.repeat = (args = p.args),
            !.same_track = p.args.kind = "now_playing" /\ args.kind = "now_playing"
                           /\ args.file = p.args.file]

\* display.update_now_playing(filename, state, volume, ..., force_show_volume)
RenderNowPlaying ==
  /\ \E f \in PanelFiles, st \in PlayerStates, vol \in PanelVolumes,
        force \in BOOLEAN :
       LET args == [kind |-> "now_playing", file |-> f, state |-> st,
                    volume |-> vol, force_show_volume |-> force]
           show == force \/ should_show_volume_bar(display, now)
       IN panel' = Rendered(panel,
                            update_now_playing_image(panel, f, st, vol, show), args)
  /\ UNCHANGED <<now, display, gpio, dec, shut, player>>

\* display.show_splash()
RenderSplash ==
  /\ LET args == [kind |-> "splash", file |-> CHOOSE f \in PanelFiles : TRUE,
                  state |-> "STOPPED", volume |-> 0, force_show_volume |-> FALSE]
     IN panel' = Rendered(panel, show_splash(panel), args)
  /\ UNCHANGED <<now, display, gpio, dec, shut, player>>

NextRender ==
  \/ RenderNowPlaying
  \/ RenderSplash

SpecRender == Init /\ [][NextRender]_vars

\* ------------------------------------------------- the drawing routines alone
\* One routine applied to one input: the volume bar to a volume, the text
\* truncation to a text and a width, the metadata and artwork loading of a
\* render to a track file, on a panel fresh or themed by an earlier artwork.
Texts == UNION {[1..n -> {"i", "m"}] : n \in 0..MaxTextLen}

Themes ==
  {[bg |-> NoColour, accent |-> NoColour]}
  \cup {extract_colors_from_artwork(c) : c \in ArtColours}

\* Artwork as short runs of pixels: an RGB image, an RGBA image or a
\* greyscale one; 127/128 sit on either side of the brightness threshold.
RgbPixels ==
  {<<0, 0, 0>>, <<255, 255, 255>>, <<200, 40, 40>>, <<127, 128, 128>>,
   <<128, 128, 128>>}

RgbaPixels == {<<30, 60, 90, 255>>, <<250, 240, 230, 0>>}

GreyPixels == {<<77>>}

PixelInputs ==
  UNION {[1..n -> RgbPixels] \cup [1..n -> RgbaPixels] \cup [1..n -> GreyPixels] :
         n \in 1..MaxPixels}

DrawInputs ==
  {[kind |-> "bar", vol |-> v, text |-> <<>>, max_width |-> 0,
    file |-> CHOOSE f \in PanelFiles : TRUE, state |-> "STOPPED",
    pixels |-> <<>>] : v \in 0..100}
  \cup {[kind |-> "text", vol |-> 0, text |-> t, max_width |-> w,
         file |-> CHOOSE f \in PanelFiles : TRUE, state |-> "STOPPED",
         pixels |-> <<>>] : t \in Texts, w \in 0..MaxTextWidth}
  \cup {[kind |-> "file", vol |-> 0, text |-> <<>>, max_width |-> 0,
         file |-> f, state |-> st, pixels |-> <<>>] :
          f \in FileInputs, st \in PlayerStates}
  \cup {[kind |-> "art", vol |-> 0, text |-> <<>>, max_width |-> 0,
         file |-> CHOOSE f \in PanelFiles : TRUE, state |-> "STOPPED",
         pixels |-> px] : px \in PixelInputs}

InitDraw ==
  /\ playlist = <<>>
  /\ current_index = 0
  /\ state = "STOPPED"
  /\ volume = DefaultVolume
  /\ current_process = None
  /\ procs = <<>>
  /\ mixer = -1
  /\ play_all_i = -1
  /\ last = [cmd |-> "init", arg |-> 0, ok |-> TRUE, from |-> "STOPPED"]
  /\ AuxInit
  /\ \E i \in DrawInputs, th0 \in Themes :
       panel = [NewPanel EXCEPT !.input = i,
                                !.current_bg_color = th0.bg,
                                !.current_accent_color = th0.accent,
                                !.image = Cleared(IF th0.bg # NoColour
                                                  THEN th0.bg ELSE DARK_BG)]

Undrawn(kind) == panel.input.kind = kind /\ panel.output = NoArgs

\* _draw_vertical_volume_bar(volume, bar_width)
DrawBar ==
  /\ Undrawn("bar")
  /\ panel' = [panel EXCEPT !.output =
                 [kind |-> "bar",
                  segments |-> draw_vertical_volume_bar(panel.input.vol,
                                                        AccentColour(panel))]]
  /\ UNCHANGED <<now, display, gpio, dec, shut, player>>

\* _draw_text_with_truncate(text, x, y, font, color, max_width)
DrawText ==
  /\ Undrawn("text")
  /\ panel' = [panel EXCEPT !.output =
                 [kind |-> "text",
                  text |-> truncate(panel.input.text, panel.input.max_width)]]
  /\ UNCHANGED <<now, display, gpio, dec, shut, player>>

\* update_now_playing of the track file, with its metadata and its artwork.
DrawTrack ==
  /\ Undrawn("file")
  /\ panel' = [update_now_playing_image(panel, panel.input.file,
                                        panel.input.state, DefaultVolume, FALSE)
                 EXCEPT !.output = [kind |-> "file",
                                    meta |-> extract_metadata(panel.input.file)]]
  /\ UNCHANGED <<now, display, gpio, dec, shut, player>>

\* _extract_colors_from_artwork(artwork_image): sets the two theme colours.
DrawColours ==
  /\ Undrawn("art")
  /\ LET th1 == extract_colors_from_pixels(panel.input.pixels)
     IN  panel' = [panel EXCEPT !.current_bg_color = th1.bg,
                                !.current_accent_color = th1.accent,
                                !.output = [kind |-> "colours"]]
  /\ UNCHANGED <<now, display, gpio, dec, shut, player>>

NextDraw ==
  \/ DrawBar
  \/ DrawText
  \/ DrawTrack
  \/ DrawColours

SpecDraw == InitDraw /\ [][NextDraw]_vars

\* ------------------------------------------------------------- play_all mode
\* main with mode 1: the playlist is loaded, the buttons (live since
\* setup_gpio_controls) may be pressed while main waits at the mode prompt,
\* then play_all runs to its end with no other command.  The loop is the
\* main thread, which keeps running, and every mpg123 reaches the end of its
\* file: weak fairness on the loop's steps and on the exit of the process.
BeforePlayAll == play_all_i = -1 /\ last.cmd # "play_all_end"

\* player.play_all(), called once, with room left for its launches.
PlayAllCall ==
  /\ BeforePlayAll
  /\ Len(procs) + Len(playlist) <= MaxLaunch
  /\ PlayAllStart

NextPlayAll ==
  \/ LoadPlaylist
  \/ BeforePlayAll /\ PlayNext
  \/ BeforePlayAll /\ PlayPrevious
  \/ BeforePlayAll /\ PlayPauseButton
  \/ PlayAllCall
  \/ PlayAllIter
  \/ PlayAllEnd
  \/ ProcessExit

SpecPlayAll ==
  /\ Init
  /\ [][NextPlayAll]_vars
  /\ WF_vars(PlayAllIter)
  /\ WF_vars(PlayAllEnd)
  /\ WF_vars(ProcessExit)

\* ------------------------------------------------------------------ claims
NoLive == LivePids(procs) = {}

OneLiveFor(track) ==
  /\ LivePids(procs) = {current_process}
  /\ procs[current_process].track = track

\* C1: with commands executed one at a time, at most one audio process
\* launched by the player is alive after each command.
C1_AtMostOneLive == Cardinality(LivePids(procs)) <= 1

\* A second launch has replaced a process that was still playing.
C1_Witness ==
  /\ last.cmd = "play_next" /\ last.ok /\ last.from = "PLAYING"
  /\ Len(procs) >= 2
  /\ Cardinality(LivePids(procs)) = 1

PlayCmds == {"play", "play_next", "play_previous"}

\* The command of the step is a play command with a non-empty playlist and,
\* for play(i), a valid index.
PlayStep ==
  /\ last'.cmd \in PlayCmds
  /\ Len(playlist) > 0
  /\ last'.cmd = "play" => last'.arg \in 0..(Len(playlist) - 1)

RequestedIndex ==
  IF last'.cmd = "play" THEN last'.arg
  ELSE IF last'.cmd = "play_next" THEN (current_index + 1) % Len(playlist)
  ELSE (current_index - 1) % Len(playlist)

C6_IndexInRange ==
  Len(playlist) > 0 => (0 <= current_index /\ current_index < Len(playlist))

C6_Witness ==
  /\ Len(playlist) = 3
  /\ last.cmd = "play_previous"
  /\ current_index = 2

\* C7: stop, in any state, ends Stopped with current_process cleared and no
\* live process; current_index, playlist and volume are unchanged.
C7_StopEndsStopped ==
  [][last'.cmd = "stop" =>
       /\ state' = "STOPPED"
       /\ current_process' = None
       /\ NoLive'
       /\ current_index' = current_index
       /\ playlist' = playlist
       /\ volume' = volume]_vars

\* stop has ended a paused (suspended) process.
C7_Witness ==
  /\ last.cmd = "stop" /\ last.from = "PAUSED"
  /\ state = "STOPPED" /\ current_process = None
  /\ Len(procs) >= 1 /\ NoLive

Unchanged3 ==
  /\ state' = state
  /\ current_index' = current_index
  /\ current_process' = current_process
  /\ procs' = procs

\* C8 as stated: pause (resume) acts only when state is Playing (Paused) and
\* the process is alive; in every other case, a process that has already
\* exited included, nothing changes.
C8_Original ==
  [][/\ last'.cmd = "pause" =>
          IF state = "PLAYING" /\ is_process_running(Player)
          THEN /\ state' = "PAUSED"
               /\ current_process' = current_process
               /\ procs'[current_process].status = "suspended"
          ELSE Unchanged3
     /\ last'.cmd = "resume" =>
          IF state = "PAUSED" /\ is_process_running(Player)
          THEN /\ state' = "PLAYING"
               /\ current_process' = current_process
               /\ procs'[current_process].status = "running"
          ELSE Unchanged3]_vars

\* C8 amended: pause (resume) acts exactly when state is Playing (Paused) and
\* a process handle is held: the state becomes Paused (Playing), the handle
\* and the index stay, a live process stays alive, suspended (continued), and
\* one that has already exited stays as it is; in every other case nothing
\* changes.
C8_PauseResume ==
  [][/\ last'.cmd = "pause" =>
          IF state = "PLAYING" /\ current_process # None
          THEN /\ state' = "PAUSED"
               /\ current_process' = current_process
               /\ current_index' = current_index
               /\ IF is_process_running(Player)
                  THEN procs' = [procs EXCEPT ![current_process].status = "suspended"]
                  ELSE procs' = procs
          ELSE Unchanged3
     /\ last'.cmd = "resume" =>
          IF state = "PAUSED" /\ current_process # None
          THEN /\ state' = "PLAYING"
               /\ current_process' = current_process
               /\ current_index' = current_index
               /\ IF is_process_running(Player)
                  THEN procs' = [procs EXCEPT ![current_process].status = "running"]
                  ELSE procs' = procs
          ELSE Unchanged3]_vars

\* resume has continued the process that pause had suspended.
C8_Witness ==
  /\ last.cmd = "resume" /\ last.from = "PAUSED"
  /\ state = "PLAYING"
  /\ procs[current_process].status = "running"

\* The clamp of the claim: v cut to [0, 100].
ClampTo100(v) == IF v < 0 THEN 0 ELSE IF v > 100 THEN 100 ELSE v

\* C9: after set_volume(v) the stored volume is clamp(v, 0, 100), that value
\* is the one handed to the mixer, and state, current_index and the process
\* handle are unchanged, also when the mixer call fails.
C9_SetVolumeClamps ==
  [][last'.cmd = "set_volume" =>
       /\ volume' = ClampTo100(last'.arg)
       /\ mixer' = ClampTo100(last'.arg)
       /\ Unchanged3]_vars

\* set_volume(-1) with a failing mixer call, while a track is playing.
C9_Witness ==
  /\ last.cmd = "set_volume" /\ last.arg = -1 /\ ~last.ok
  /\ volume = 0
  /\ state = "PLAYING"

\* C5: after n calls of play_next and m calls of play_previous from index i
\* of a playlist of length L, in any order, current_index is (i + n - m) mod L:
\* n calls of play_next alone give (i + n) mod L, m calls of play_previous
\* alone give (i - m) mod L, a next and a previous cancel, and L calls of
\* either return to i.
C5_NavIndex ==
  current_index = (nav.start + nav.n_next - nav.n_prev) % Len(playlist)

\* Three calls of play_previous on three tracks, from index 1, are back at 1.
C5_Witness ==
  /\ Len(playlist) = 3 /\ nav.start = 1
  /\ nav.n_prev = 3 /\ nav.n_next = 0
  /\ current_index = 1
  /\ last.cmd = "play_previous"

AllIdle == \A t \in PlaybackThreads : th[t].pc = "idle"

\* C2: with the button callbacks running beside the main loop, there are
\* never two live audio processes, and once every command has returned no
\* live audio process is left that current_process does not reference.
C2_NoSecondProcessNoOrphan ==
  /\ Cardinality(LivePids(procs)) <= 1
  /\ AllIdle => LivePids(procs) \subseteq {current_process}

AllowedChanges ==
  {<<"STOPPED", "PLAYING">>, <<"PLAYING", "PAUSED">>, <<"PAUSED", "PLAYING">>,
   <<"PLAYING", "STOPPED">>, <<"PAUSED", "STOPPED">>}

StateCommands ==
  {"play", "play_first", "play_all_iter", "play_next", "play_previous", "stop",
   "pause", "resume", "play_pause", "monitor_poll"}

\* The poll of this step finds the process gone while Playing, and calls next.
PollInvokesNext == ~is_process_running(Player) /\ state = "PLAYING"

C10_VolumeInRange == 0 <= volume /\ volume <= 100

\* An encoder step up from above 98 has been stored, cut to 100.
C10_Witness ==
  /\ vt["encoder"].pc = "push"
  /\ vt["encoder"].v > 100
  /\ volume = 100

\* What a poll that does not call play_next leaves as it was.
PollChangesNothing ==
  /\ Unchanged3
  /\ volume' = volume
  /\ playlist' = playlist

\* C11 as stated: a monitor poll calls next exactly when the process has
\* exited and state is Playing, and it then moves current_index on by one
\* (mod length) and launches one process for the new track, ending Playing;
\* a poll in Paused or Stopped, or with the process alive, changes nothing.
C11_Original ==
  [][last'.cmd = "monitor_poll" =>
       IF PollInvokesNext
       THEN /\ Len(playlist) > 0
            /\ current_index' = (current_index + 1) % Len(playlist)
            /\ Len(procs') = Len(procs) + 1
            /\ state' = "PLAYING"
            /\ OneLiveFor(playlist[current_index + 1])'
       ELSE PollChangesNothing]_vars

\* C11 amended: the poll calls next exactly when the process has exited and
\* state is Playing; current_index then moves on by one (mod length); when the
\* launch succeeds one process is launched for the new track and the state
\* stays Playing, when it raises no process is launched and the state is
\* Stopped with no handle. A poll in Paused or Stopped, or with the process
\* alive, changes nothing.
C11_MonitorAdvances ==
  [][last'.cmd = "monitor_poll" =>
       IF PollInvokesNext
       THEN /\ Len(playlist) > 0
            /\ current_index' = (current_index + 1) % Len(playlist)
            /\ last'.ok => /\ Len(procs') = Len(procs) + 1
                           /\ state' = "PLAYING"
                           /\ OneLiveFor(playlist[current_index + 1])'
            /\ ~last'.ok => /\ Len(procs') = Len(procs)
                            /\ state' = "STOPPED"
                            /\ current_process' = None
                            /\ NoLive'
       ELSE PollChangesNothing]_vars

\* [A, B, C] at index 0: A has ended, and the poll has launched B at index 1.
C11_Witness ==
  /\ last.cmd = "monitor_poll" /\ last.arg = 1 /\ last.ok
  /\ Len(playlist) = 3 /\ current_index = 1
  /\ state = "PLAYING"
  /\ procs = <<Exited, [track |-> "B.mp3", status |-> "running"]>>
  /\ current_process = 2

\* The handle held is of a process that has already exited.
DeadHandle == current_process # None /\ ~Alive(procs, current_process)

\* Stopped, or a live audio process is held.
Settled == state = "STOPPED" \/ is_process_running(Player)

SignalCommands == {"pause", "resume", "stop"}

\* C12: pause, resume and stop sent to a process that is already dead complete
\* their state transition without raising, and the monitor poll that follows
\* such a command, with no user command in between, leaves the player Stopped
\* or with a live audio process (never Playing or Paused with a dead process).
C12_MonitorCorrects ==
  [][/\ (last'.cmd = "pause" /\ DeadHandle /\ state = "PLAYING") => state' = "PAUSED"
     /\ (last'.cmd = "resume" /\ DeadHandle /\ state = "PAUSED") => state' = "PLAYING"
     /\ (last'.cmd = "stop" /\ DeadHandle) => state' = "STOPPED"
     /\ last'.cmd \in SignalCommands => ~raised'
     /\ (last.cmd \in SignalCommands /\ last'.cmd = "monitor_poll") => Settled']_vars

\* The command of the step has an invalid argument: a number outside the
\* playlist, or next, previous or the play/pause button with no playlist.
InvalidStep ==
  \/ last'.cmd = "play" /\ last'.arg \notin 0..(Len(playlist) - 1)
  \/ last'.cmd \in {"play_next", "play_previous", "play_pause"} /\ Len(playlist) = 0

\* C13: play-by-number with an index outside [0, len), and play_next,
\* play_previous and the play/pause button on an empty playlist, leave state,
\* current_index, volume and the process handle unchanged, launch no process
\* and raise no exception.
C13_InvalidIsNoOp ==
  [][InvalidStep =>
       /\ Unchanged3
       /\ volume' = volume
       /\ mixer' = mixer
       /\ ~raised']_vars

\* Number 4 typed with three tracks while B plays: B still plays.
C13_Witness ==
  /\ last.cmd = "play" /\ last.arg = 3 /\ last.from = "PLAYING"
  /\ Len(playlist) = 3 /\ current_index = 1
  /\ state = "PLAYING"
  /\ procs[current_process] = [track |-> "B.mp3", status |-> "running"]

\* The play/pause button pressed with no playlist: still Stopped, no process.
C13_WitnessEmpty ==
  /\ last.cmd = "play_pause"
  /\ playlist = <<>>
  /\ state = "STOPPED" /\ procs = <<>>

VolumeIdle == \A t \in VolumeThreads : vt[t].pc = "idle"

\* No clamp and no reset took part: the steps issued from 50 stay inside
\* (0, 100) in every order, so every serial order ends at start + sum.
PlainSteps ==
  /\ vreq.start = 50
  /\ ~vreq.reset
  /\ ops * KeyboardStep < 50

\* C14: commands from the keyboard loop, the GPIO callbacks and the encoder
\* thread exclude one another on the shared state, so once all of them have
\* returned the volume is what running them one at a time gives: from 50, the
\* steps issued add up (an encoder +2 and a keyboard +5 give 57).
C14_Serializable ==
  (VolumeIdle /\ PlainSteps) => volume = vreq.start + vreq.sum

\* C15: with stop, play_file, pause, resume and the monitor's
\* is_process_running check interleaved between the callback thread and the
\* main loop, no thread dereferences a handle another thread has cleared to
\* None: no exception escapes stop, play_file or is_process_running.
C15_NoCommandRaises == ~raised

\* The command of the step has changed the state or the track played.
ChangesStateOrTrack ==
  /\ last'.cmd \in StateCommands
  /\ \/ state' # state
     \/ current_index' # current_index
     \/ current_process' # current_process

\* C16: every command that changes the player state or the current track
\* triggers exactly one now-playing render, and every set_volume records the
\* volume-overlay timestamp and triggers one render.
C16_OneRenderPerCommand ==
  [][/\ ChangesStateOrTrack => display'.renders = display.renders + 1
     /\ last'.cmd = "set_volume" =>
          /\ display'.renders = display.renders + 1
          /\ display'.notified
          /\ display'.last_volume_change_time = now]_vars

\* The step is a render, made after a volume change has been recorded.
RenderAfterChange ==
  /\ display'.renders = display.renders + 1
  /\ display.notified

\* C17: in a render at time now the volume side panel is drawn if and only if
\* force_show_volume is true or now - last_volume_change_time < 3.0, whatever
\* the clock reading at which the change was recorded, a reading of 0 included.
C17_PanelIffRecent ==
  [][RenderAfterChange =>
       (display'.show_volume <=>
          \/ display'.force_show_volume
          \/ now - display.last_volume_change_time < volume_display_duration)]_vars

\* The step is a falling edge on the line of button b.
Falls(b) == gpio.level[b] = 1 /\ gpio'.level[b] = 0

\* The step has run the callback of button b once more.
Recognized(b) == gpio'.calls[b] = gpio.calls[b] + 1

\* Milliseconds since the callback of b last ran, if it ever did.
SinceLastCall(b) == gpio.t - gpio.called_at[b]

\* C18: the command of a button is dispatched only on a falling edge of its
\* own input and only if at least the debounce interval (200 ms) has passed
\* since the last press recognized on that input; edges inside the window
\* dispatch nothing; and a falling edge after the input's own window is
\* recognized whatever was pressed on the other inputs.
C18_Debounce ==
  [][\A b \in Buttons :
       /\ gpio'.calls[b] \in {gpio.calls[b], gpio.calls[b] + 1}
       /\ Recognized(b) =>
            /\ Falls(b)
            /\ gpio.called_at[b] = Never \/ SinceLastCall(b) >= 200
       /\ (Falls(b) /\ (gpio.called_at[b] = Never \/ SinceLastCall(b) > 200))
            => Recognized(b)]_vars

\* play/pause was recognized at 0 ms and again at 300 ms, with one of its
\* falling edges ignored, and next was recognized at 100 ms in between.
C18_Witness ==
  /\ gpio.calls["play_pause"] = 2 /\ gpio.called_at["play_pause"] = 300
  /\ gpio.calls["next"] = 1 /\ gpio.called_at["next"] = 100
  /\ gpio.falls = 4

SameTrackHeld ==
  /\ current_process' = current_process
  /\ current_index' = current_index
  /\ Len(procs') = Len(procs)

\* C19: a play/pause press is one command chosen by the state. Playing: pause
\* (Paused, same handle and index, a live process suspended). Paused: resume
\* (Playing, same handle and index, a live process continued). Stopped with a
\* non-empty playlist: play_file(playlist[current_index]), index unchanged
\* (one new process for that track, Playing; Stopped when the launch raises).
\* So two presses in a row from Playing with a live process are back at
\* Playing with the same handle and index, the process running.
C19_PlayPauseButton ==
  [][last'.cmd = "play_pause" =>
       /\ (state = "PLAYING" /\ current_process # None) =>
            /\ state' = "PAUSED"
            /\ SameTrackHeld
            /\ is_process_running(Player) => procs'[current_process].status = "suspended"
       /\ (state = "PAUSED" /\ current_process # None) =>
            /\ state' = "PLAYING"
            /\ SameTrackHeld
            /\ is_process_running(Player) => procs'[current_process].status = "running"
       /\ (state = "STOPPED" /\ Len(playlist) > 0) =>
            /\ current_index' = current_index
            /\ last'.ok => /\ state' = "PLAYING"
                           /\ Len(procs') = Len(procs) + 1
                           /\ OneLiveFor(playlist[current_index + 1])'
            /\ ~last'.ok => /\ state' = "STOPPED"
                            /\ Len(procs') = Len(procs)
       /\ (/\ last.cmd = "play_pause" /\ last.from = "PLAYING"
           /\ state = "PAUSED" /\ is_process_running(Player)) =>
            /\ state' = "PLAYING"
            /\ SameTrackHeld
            /\ procs'[current_process].status = "running"]_vars

\* Two presses while B plays: B plays on, in the process launched for it.
C19_Witness ==
  /\ last.cmd = "play_pause" /\ last.from = "PAUSED"
  /\ Len(playlist) = 3 /\ current_index = 1
  /\ state = "PLAYING"
  /\ procs[current_process] = [track |-> "B.mp3", status |-> "running"]

\* The encoder thread has handled every change of line A so far.
KnobSettled == VAt("encoder", "idle") /\ enc.a = enc.last_a

\* C20: in the player's decoder, n falls of line A with line B high, A going
\* back high between them, raise the volume by exactly 2*n, cut at 100: each
\* such fall is one +2 step and the rises of A in between are none.
C20_FallsStepUp ==
  KnobSettled => volume = Min(100, vreq.start + 2 * enc.falls)

\* C21: fed the same A and B line levels, the player's polled decoder and
\* EncoderTest's interrupt decoder have emitted the same net number of steps.
C21_DecodersAgree == dec.polled = dec.position

\* C22: a step of the player's encoder decoder is a request of +2 or -2, and it
\* comes no sooner than the button debounce interval after the step before it.
C22_EncoderDebounce ==
  last.cmd = "encoder_step" =>
    /\ last.arg \in {EncoderStep, -EncoderStep}
    /\ dec.prev_stepped_at # Never =>
         dec.stepped_at - dec.prev_stepped_at >= debounce_ms

\* C23 as stated: a press of the encoder push-button leaves the stored volume
\* at the value it had before the press, and leaves state, current_index and
\* the process handle unchanged.
C23_Original ==
  [][last'.cmd = "encoder_button" =>
       /\ volume' = volume
       /\ state' = state
       /\ current_index' = current_index
       /\ current_process' = current_process]_vars

\* C23 amended: a press of the encoder push-button sets the stored volume to
\* 80 whatever it was before, and leaves state, current_index and the process
\* handle unchanged.
C23_ButtonResets ==
  [][last'.cmd = "encoder_button" =>
       /\ volume' = DefaultVolume
       /\ mixer' = DefaultVolume
       /\ state' = state
       /\ current_index' = current_index
       /\ current_process' = current_process
       /\ procs' = procs]_vars

\* The button was pressed at volume 55 with a paused track: the volume is 80.
C23_Witness ==
  /\ last.cmd = "encoder_button" /\ last.arg = 55
  /\ volume = DefaultVolume
  /\ state = "PAUSED" /\ current_process # None

\* A stop() that began with a handle has run to its end.
StopDone == shut.old # None /\ shut.pc \in {"launch", "idle"}

\* C25: stop, and the stop inside a new play, end with the old process dead and
\* the handle no longer on it, whether the process was running or suspended
\* and whether or not it reacted to terminate: terminate comes first, the wait
\* takes at most 2 seconds, kill follows exactly when the wait timed out, and
\* no step of the command is ever blocked.
C25_StopTerminates ==
  /\ StopDone =>
       /\ ~Alive(procs, shut.old)
       /\ current_process # shut.old
       /\ shut.sent \in {<<"SIGTERM">>, <<"SIGTERM", "SIGKILL">>}
       /\ shut.waited <= wait_timeout
  /\ shut.pc = "launch" => current_process = None
  /\ StopDone /\ shut.cmd = "stop" => current_process = None /\ state = "STOPPED"
  /\ shut.pc = "kill" => Alive(procs, current_process) /\ shut.waited = wait_timeout
  /\ ~StopIdle => ENABLED StopStep

\* A suspended process did not react to terminate within 2 seconds, was
\* killed, and the new track was launched after it.
C25_Witness ==
  /\ StopIdle /\ shut.cmd = "play" /\ shut.was = "suspended"
  /\ shut.sent = <<"SIGTERM", "SIGKILL">> /\ shut.waited = wait_timeout
  /\ ~Alive(procs, shut.old)
  /\ current_process # None /\ Alive(procs, current_process)

\* Where x stands in the teardown order, 0 when it has not happened.
TeardownPos(x) ==
  IF \E i \in 1..Len(shut.order) : shut.order[i] = x
  THEN CHOOSE i \in 1..Len(shut.order) : shut.order[i] = x
  ELSE 0

\* C24: cleanup stops the audio process first, then the encoder and button
\* listeners, then clears the display; no command of a button callback or of
\* the encoder thread takes effect once teardown has begun; and when cleanup
\* has completed no audio process launched by the player is alive.
C24_ShutdownOrder ==
  /\ ~shut.late
  /\ shut.at = "done" =>
       /\ NoLive
       /\ 0 < TeardownPos("audio")
       /\ TeardownPos("audio") < TeardownPos("encoder")
       /\ TeardownPos("audio") < TeardownPos("buttons")
       /\ TeardownPos("encoder") < TeardownPos("display")
       /\ TeardownPos("buttons") < TeardownPos("display")

\* The part of C24 about the processes alone: cleanup has completed and an
\* audio process launched by the player is still alive.
C24_ProcessOutlivesCleanup == shut.at = "done" /\ ~NoLive

\* C26: a render called with the arguments of the render just before it, at
\* the same clock reading, hands the display driver the same buffer as that
\* render did, whatever had been rendered before the pair.
C26_RenderIdempotent == panel.repeat => panel.image = panel.prev_image

\* The segments of a drawn bar that lie below segment i.
SegmentsBelow(seg, i) == {j \in DOMAIN seg : seg[j].seg_y > seg[i].seg_y}

\* C27: for every volume v in 0..100 the bar has 10 segments and the segment
\* with k segments below it is filled, in the accent colour, iff
\* k < floor(v/10).
C27_BarSegments ==
  panel.output.kind = "bar" =>
    LET seg == panel.output.segments IN
    /\ Cardinality(DOMAIN seg) = 10
    /\ \A i \in DOMAIN seg :
         /\ seg[i].filled <=> Cardinality(SegmentsBelow(seg, i)) < panel.input.vol \div 10
         /\ seg[i].fill = IF seg[i].filled THEN AccentColour(panel) ELSE VOLUME_BAR_BG

\* At volume 35 the three lowest segments are filled and the fourth is not.
C27_Witness ==
  /\ panel.output.kind = "bar" /\ panel.input.vol = 35
  /\ \A i \in {7, 8, 9} : panel.output.segments[i].filled
  /\ ~panel.output.segments[6].filled

\* The text cut to its first n characters, with the ellipsis.
Cut(t, n) == SubSeq(t, 1, n) \o Ellipsis

\* C28 as stated: a text wider than max_width is drawn as its longest proper
\* prefix that, with "..." appended, is no wider than max_width, or as its
\* first 3 characters with "..." when no such prefix of 3 or more characters
\* exists; a text that fits is drawn unchanged.
C28_Original ==
  panel.output.kind = "text" =>
    LET t == panel.input.text
        w == panel.input.max_width
        r == panel.output.text
    IN IF TextWidth(t) > w
       THEN \E n \in 0..Len(t) :
              /\ r = Cut(t, n)
              /\ TextWidth(r) <= w \/ n = 3
              /\ Len(t) > 3 =>
                   /\ 3 <= n /\ n < Len(t)
                   /\ \A m \in (n + 1)..(Len(t) - 1) : TextWidth(Cut(t, m)) > w
       ELSE r = t

\* C28 amended: with max_width > 0, a text wider than max_width is drawn as
\* its longest proper prefix that, with "..." appended, is no wider than
\* max_width, or as its first 3 characters with "..." when no such prefix of 3
\* or more characters exists, and a text of at most 3 characters is drawn
\* whole with "..." appended; the result is wider than max_width only when the
\* prefix has at most 3 characters. With max_width 0, and when the text fits,
\* the text is drawn unchanged.
C28_Truncation ==
  panel.output.kind = "text" =>
    LET t == panel.input.text
        w == panel.input.max_width
        r == panel.output.text
    IN IF w # 0 /\ TextWidth(t) > w
       THEN \E n \in 0..Len(t) :
              /\ r = Cut(t, n)
              /\ TextWidth(r) <= w \/ n <= 3
              /\ Len(t) > 3 =>
                   /\ 3 <= n /\ n < Len(t)
                   /\ \A m \in (n + 1)..(Len(t) - 1) : TextWidth(Cut(t, m)) > w
              /\ Len(t) <= 3 => n = Len(t)
       ELSE r = t

\* "iiimm" at max_width 8 has lost two characters and fits as "iii...".
C28_Witness ==
  /\ panel.output.kind = "text"
  /\ panel.input.text = <<"i", "i", "i", "m", "m">> /\ panel.input.max_width = 8
  /\ panel.output.text = <<"i", "i", "i", ".", ".", ".">>

\* C29: for an unreadable file or one without a title tag the title is the
\* file name without directory and extension; without an album tag the album
\* is "Unknown Album"; without decodable artwork the render draws the
\* placeholder and leaves the theme at DARK_BG and GREEN.
C29_MetadataFallback ==
  panel.output.kind = "file" =>
    LET f == panel.input.file
        m == panel.output.meta
    IN /\ ~f.readable \/ f.title = NoTag => m.song_name = f.name.stem
       /\ ~f.readable \/ f.album = NoTag => m.album_name = UnknownAlbum
       /\ ~f.readable \/ f.art.kind # "image" =>
            /\ panel.image.artwork.placeholder
            /\ panel.current_bg_color = DARK_BG
            /\ panel.current_accent_color = GREEN
       /\ panel.image.title = m.song_name
       /\ panel.image.album = m.album_name

\* m.d/s.t.mp3 cannot be read while playing on a panel themed by an earlier
\* artwork: the title is s.t, the placeholder is drawn, the theme is reset.
C29_Witness ==
  /\ panel.output.kind = "file"
  /\ ~panel.input.file.readable /\ panel.input.state = "PLAYING"
  /\ panel.input.file.name.dir = <<"m", ".", "d", "/">>
  /\ panel.output.meta.song_name = <<"s", ".", "t">>
  /\ panel.image.background # DARK_BG
  /\ panel.image.artwork.placeholder
  /\ panel.current_bg_color = DARK_BG

\* C30: a render of the track the render before it showed opens no file.
C30_ExtractOncePerTrack == panel.same_track => panel.reads = 0

\* The claim's arithmetic, written without the division operator: sums over
\* the colour pixels with the weights in halves, and floor(x) as the integer
\* q with q <= x < q + 1.
RECURSIVE C31_Sum(_, _)
C31_Sum(pixels, c) ==
  IF pixels = <<>> THEN 0
  ELSE LET px == Head(pixels)
           w == IF Len(px) < 3 THEN 0
                ELSE IF px[1] + px[2] + px[3] < 384 THEN 2 ELSE 1
       IN  w * (IF c = 0 THEN 1 ELSE px[c]) + C31_Sum(Tail(pixels), c)

C31_Derived == panel.input.kind = "art" /\ panel.output # NoArgs

\* C31: the colours derived from an artwork are, by channel, avg =
\* floor(sum(weight * c) / sum(weight)) with weight 1.0 for a pixel of mean
\* below 128 and 0.5 otherwise, background floor(0.4 * avg) and accent
\* min(255, floor(0.8 * avg)); every channel lies in 0..255 and
\* background <= accent <= avg.  An artwork without colour pixels has no
\* average and gets the default pair.
C31_ColourDerivation ==
  C31_Derived =>
    LET px == panel.input.pixels
        n == C31_Sum(px, 0)
        bg == panel.current_bg_color
        accent == panel.current_accent_color
    IN  /\ \A c \in 1..3 : bg[c] \in 0..255 /\ accent[c] \in 0..255
        /\ n = 0 => bg = DARK_BG /\ accent = GREEN
        /\ n > 0 =>
             \A c \in 1..3 :
               LET total == C31_Sum(px, c)
               IN  \E avg \in 0..255 :
                     /\ avg * n <= total
                     /\ total < (avg + 1) * n
                     /\ 10 * bg[c] <= 4 * avg /\ 4 * avg < 10 * (bg[c] + 1)
                     /\ \E f \in 0..255 :
                          /\ 10 * f <= 8 * avg /\ 8 * avg < 10 * (f + 1)
                          /\ accent[c] = IF f < 255 THEN f ELSE 255
                     /\ bg[c] <= accent[c] /\ accent[c] <= avg

\* Colours derived from a black and a white pixel: the black one weighs
\* double, so the average is 85 and not 127.
C31_Witness ==
  /\ C31_Derived
  /\ panel.input.pixels = << <<0, 0, 0>>, <<255, 255, 255>> >>
  /\ panel.current_bg_color = <<34, 34, 34>>
  /\ panel.current_accent_color = <<68, 68, 68>>

\* The theme of track file f rendered in state st: the colours of its artwork,
\* or the default pair.
C32_OwnTheme(f, st) ==
  IF st \in {"PLAYING", "PAUSED"} /\ paste_album_art(f).has_art
  THEN extract_colors_from_artwork(paste_album_art(f).artwork)
  ELSE [bg |-> DARK_BG, accent |-> GREEN]

\* C32: the buffer of a render of track T in state Playing or Paused has its
\* background filled, and the filled segments of its volume bar drawn, in the
\* colours derived from T's own artwork (the default pair without artwork),
\* never in those left by the render before.
C32_OwnColours ==
  (panel.args.kind = "now_playing" /\ panel.args.state \in {"PLAYING", "PAUSED"}) =>
    LET own == C32_OwnTheme(panel.args.file, panel.args.state) IN
    /\ panel.image.background = own.bg
    /\ panel.image.bar.shown =>
         \A i \in DOMAIN panel.image.bar.segments :
           panel.image.bar.segments[i].filled =>
             panel.image.bar.segments[i].fill = own.accent

\* C33: after every command of a sequence executed one at a time, the state
\* is STOPPED exactly when no process handle is held; PLAYING and PAUSED hold
\* one, and a failed launch leaves neither.
C33_HandleMatchesState == (state = "STOPPED") <=> (current_process = None)

\* A launch that failed while a track was playing or paused: the handle is
\* gone and the state is STOPPED.
C33_Witness ==
  /\ last.cmd \in {"play", "play_next", "play_previous", "play_first"}
  /\ ~last.ok
  /\ last.from \in {"PLAYING", "PAUSED"}
  /\ state = "STOPPED"
  /\ current_process = None

\* C34: whenever the state is PLAYING or PAUSED, the audio process held was
\* launched for playlist[current_index] (stated of a process that is still
\* alive: the model keeps no track for one that has exited).
C34_IndexMatchesTrack ==
  (state \in {"PLAYING", "PAUSED"} /\ current_process # None
     /\ Alive(procs, current_process)) =>
    /\ current_index \in 0..(Len(playlist) - 1)
    /\ procs[current_process].track = playlist[current_index + 1]

\* A step in which play_file was called and Popen raised.
C35_LaunchFailed ==
  /\ ~last'.ok
  /\ \/ PlayStep
     \/ last'.cmd = "play_first"
     \/ last'.cmd = "play_pause" /\ state = "STOPPED" /\ Len(playlist) > 0
     \/ last'.cmd = "monitor_poll" /\ PollInvokesNext /\ Len(playlist) > 0
     \/ last'.cmd = "play_all_iter"

\* C35: when the launch fails, play_file ends Stopped with no handle, the
\* process held before is no longer alive and nothing was launched; play_next
\* and play_previous keep their index change; and the monitor, finding the
\* state Stopped, changes nothing.
C35_FailedLaunchStops ==
  [][/\ C35_LaunchFailed =>
          /\ state' = "STOPPED"
          /\ current_process' = None
          /\ Len(procs') = Len(procs)
          /\ current_process # None => ~Alive(procs', current_process)
          /\ last'.cmd = "play_next" =>
               current_index' = (current_index + 1) % Len(playlist)
          /\ last'.cmd = "play_previous" =>
               current_index' = (current_index - 1) % Len(playlist)
     /\ (last'.cmd = "monitor_poll" /\ state = "STOPPED") => PollChangesNothing
    ]_vars

\* play_next from Playing at index 0 whose launch failed: index 1, Stopped,
\* no handle, and the process that was playing is dead.
C35_Witness ==
  /\ last.cmd = "play_next" /\ ~last.ok /\ last.from = "PLAYING"
  /\ Len(playlist) >= 2 /\ current_index = 1
  /\ state = "STOPPED" /\ current_process = None
  /\ Len(procs) = 1 /\ NoLive

\* C36: play_all, with every launched process exiting and no other command
\* intervening, sets current_index to 0, 1, ..., L-1 in turn without
\* wrapping, launches playlist[current_index] at each, never goes on to the
\* next track while a process is alive, returns only after the last track's
\* process has ended, and does return.
C36_PlayAllInOrder ==
  /\ [][/\ last'.cmd = "play_all_start" => play_all_i' = 0
        /\ last'.cmd = "play_all_iter" =>
             /\ play_all_i \in 0..(Len(playlist) - 1)
             /\ play_all_i' = play_all_i + 1
             /\ current_index' = play_all_i
             /\ play_all_i > 0 => current_index = play_all_i - 1 /\ NoLive
             /\ last'.ok => /\ Len(procs') = Len(procs) + 1
                            /\ OneLiveFor(playlist[current_index + 1])'
             /\ ~last'.ok => Len(procs') = Len(procs)
        /\ last'.cmd = "play_all_end" =>
             /\ play_all_i = Len(playlist)
             /\ current_index = Len(playlist) - 1
             /\ NoLive
        /\ last'.cmd \notin {"play_all_start", "play_all_iter", "play_all_end"} =>
             play_all_i' = play_all_i
       ]_vars
  /\ (last.cmd = "play_all_start") ~> (last.cmd = "play_all_end")

\* play_all of three tracks has returned: index 2, three processes launched
\* and ended.
C36_Witness ==
  /\ last.cmd = "play_all_end"
  /\ Len(playlist) = 3 /\ current_index = 2
  /\ procs = <<Exited, Exited, Exited>>
====
